---------------------------- MODULE Spec2Model ----------------------------
(***************************************************************************)
(* File sharing between a server (server.cpp) and a client (client.cpp).   *)
(*                                                                         *)
(* A message is a sequence of bytes (0..255).  Every message is passed     *)
(* through encryptDecrypt before it is written to the socket and after it  *)
(* is read from it, so the queues toServer and toClient hold wire bytes.   *)
(* A queue element is what one send() wrote; one recv() returns the head   *)
(* element, cut to BUFFER_SIZE bytes.                                      *)
(***************************************************************************)
EXTENDS Integers, Sequences, FiniteSets, TLC

(***************************************************************************)
(* Text of the protocol, as ASCII codes.                                   *)
(***************************************************************************)
AUTH              == <<65, 85, 84, 72>>                                  \* "AUTH"
AUTH_SUCCESS      == <<65, 85, 84, 72, 95, 83, 85, 67, 67, 69, 83, 83>>  \* "AUTH_SUCCESS"
AUTH_FAIL         == <<65, 85, 84, 72, 95, 70, 65, 73, 76>>              \* "AUTH_FAIL"
\* "ERROR Authentication required."
ERR_AUTH_REQUIRED == <<69, 82, 82, 79, 82, 32, 65, 117, 116, 104, 101, 110, 116, 105, 99,
                       97, 116, 105, 111, 110, 32, 114, 101, 113, 117, 105, 114, 101, 100, 46>>
LIST              == <<76, 73, 83, 84>>                                  \* "LIST"
\* "Files on server:\n"
LIST_HEADER       == <<70, 105, 108, 101, 115, 32, 111, 110, 32, 115, 101, 114, 118, 101,
                       114, 58, 10>>
DOWNLOAD          == <<68, 79, 87, 78, 76, 79, 65, 68>>                  \* "DOWNLOAD"
OK_DOWNLOAD       == <<79, 75, 95, 68, 79, 87, 78, 76, 79, 65, 68>>      \* "OK_DOWNLOAD"
START             == <<83, 84, 65, 82, 84>>                              \* "START"
DOWNLOAD_DONE     == <<68, 79, 87, 78, 76, 79, 65, 68, 95, 68, 79, 78, 69>> \* "DOWNLOAD_DONE"
\* "ERROR File not found."
ERR_NOT_FOUND     == <<69, 82, 82, 79, 82, 32, 70, 105, 108, 101, 32, 110, 111, 116, 32,
                       102, 111, 117, 110, 100, 46>>
UPLOAD            == <<85, 80, 76, 79, 65, 68>>                          \* "UPLOAD"
\* "ERROR Cannot create file."
ERR_CANNOT_CREATE == <<69, 82, 82, 79, 82, 32, 67, 97, 110, 110, 111, 116, 32, 99, 114,
                       101, 97, 116, 101, 32, 102, 105, 108, 101, 46>>
OK_UPLOAD         == <<79, 75, 95, 85, 80, 76, 79, 65, 68>>              \* "OK_UPLOAD"
UPLOAD_SUCCESS    == <<85, 80, 76, 79, 65, 68, 95, 83, 85, 67, 67, 69, 83, 83>> \* "UPLOAD_SUCCESS"
\* "ERROR Upload incomplete."
ERR_INCOMPLETE    == <<69, 82, 82, 79, 82, 32, 85, 112, 108, 111, 97, 100, 32, 105, 110,
                       99, 111, 109, 112, 108, 101, 116, 101, 46>>
QUIT              == <<81, 85, 73, 84>>                                  \* "QUIT"
\* "ERROR Unknown command."
ERR_UNKNOWN       == <<69, 82, 82, 79, 82, 32, 85, 110, 107, 110, 111, 119, 110, 32, 99,
                       111, 109, 109, 97, 110, 100, 46>>
CANCEL            == <<67, 65, 78, 67, 69, 76>>                          \* "CANCEL"

SP == <<32>>                                                             \* " "
NL == <<10>>                                                             \* "\n"

\* const int BUFFER_SIZE = 4096 (the same in the server and in the client)
BUFFER_SIZE == 4096

\* const std::string ENCRYPTION_KEY = "mysecretkey"
ENCRYPTION_KEY == <<109, 121, 115, 101, 99, 114, 101, 116, 107, 101, 121>>

\* const std::string ENCRYPTION_KEY = "mysecretkey", of the client
CLIENT_ENCRYPTION_KEY == <<109, 121, 115, 101, 99, 114, 101, 116, 107, 101, 121>>

\* std::map<std::string, std::string> VALID_USERS:
\* {"user", "pass123"}, {"admin", "adminpass"}
VALID_USERS ==
  LET user      == <<117, 115, 101, 114>>
      pass123   == <<112, 97, 115, 115, 49, 50, 51>>
      admin     == <<97, 100, 109, 105, 110>>
      adminpass == <<97, 100, 109, 105, 110, 112, 97, 115, 115>>
  IN  [u \in {user, admin} |-> IF u = user THEN pass123 ELSE adminpass]

(***************************************************************************)
(* Pure functions.                                                         *)
(***************************************************************************)
Min(a, b) == IF a < b THEN a ELSE b

\* A faulty codec: a | b on bytes.
RECURSIVE OrByte(_, _)
OrByte(a, b) ==
  IF a = 0 THEN b
  ELSE IF b = 0 THEN a
  ELSE (IF a % 2 = 1 \/ b % 2 = 1 THEN 1 ELSE 0) + 2 * OrByte(a \div 2, b \div 2)

\* a ^ b on bytes
RECURSIVE XorByte(_, _)
XorByte(a, b) ==
  IF a = 0 THEN b
  ELSE IF b = 0 THEN a
  ELSE ((a + b) % 2) + 2 * XorByte(a \div 2, b \div 2)

\* result[i] = data[i] ^ ENCRYPTION_KEY[i % ENCRYPTION_KEY.size()], i from 0
encryptDecrypt(data) ==
  [i \in 1..Len(data) |->
     XorByte(data[i], ENCRYPTION_KEY[((i - 1) % Len(ENCRYPTION_KEY)) + 1])]

\* encryptDecrypt of the client
encryptDecryptClient(data) ==
  [i \in 1..Len(data) |->
     XorByte(data[i], CLIENT_ENCRYPTION_KEY[((i - 1) % Len(CLIENT_ENCRYPTION_KEY)) + 1])]

\* std::isspace in the "C" locale: \t \n \v \f \r and the space
IsSpace(c) == c \in {9, 10, 11, 12, 13, 32}
IsDigit(c) == c \in 48..57

\* A std::stringstream over str is modelled by str and the read position p
\* (1-based; Len(str) + 1 is the end of the stream).
\* The first position q >= p that is the end or holds no white space.
SkipWs(str, p) ==
  CHOOSE q \in p..(Len(str) + 1) :
    /\ (q = Len(str) + 1 \/ ~IsSpace(str[q]))
    /\ \A k \in p..(q - 1) : IsSpace(str[k])

\* The first position q >= p that is the end or holds white space.
WordEnd(str, p) ==
  CHOOSE q \in p..(Len(str) + 1) :
    /\ (q = Len(str) + 1 \/ IsSpace(str[q]))
    /\ \A k \in p..(q - 1) : ~IsSpace(str[k])

\* ss >> word for a std::string: skips white space, takes the characters up
\* to the next white space; the word is empty when the stream is at its end.
ExtractWord(str, p) ==
  LET b == SkipWs(str, p)
      e == WordEnd(str, b)
  IN  [word |-> SubSeq(str, b, e - 1), next |-> e]

\* The first position q >= p that is the end or holds no digit.
DigitsEnd(str, p) ==
  CHOOSE q \in p..(Len(str) + 1) :
    /\ (q = Len(str) + 1 \/ ~IsDigit(str[q]))
    /\ \A k \in p..(q - 1) : IsDigit(str[k])

RECURSIVE DecimalValue(_)
DecimalValue(digits) ==
  IF digits = <<>> THEN 0
  ELSE 10 * DecimalValue(SubSeq(digits, 1, Len(digits) - 1))
       + (digits[Len(digits)] - 48)

\* ss >> n for a long long: skips white space, takes an optional sign and
\* the decimal digits that follow; with no digit the extraction fails and
\* stores 0 (C++11).
ExtractInt(str, p) ==
  LET b       == SkipWs(str, p)
      signed  == b <= Len(str) /\ str[b] \in {43, 45}
      d       == IF signed THEN b + 1 ELSE b
      e       == DigitsEnd(str, d)
      v       == DecimalValue(SubSeq(str, d, e - 1))
  IN  IF e = d THEN 0
      ELSE IF signed /\ str[b] = 45 THEN 0 - v
      ELSE v

\* std::to_string(n)
RECURSIVE to_string(_)
to_string(n) ==
  IF n < 0 THEN <<45>> \o to_string(0 - n)
  ELSE IF n < 10 THEN <<48 + n>>
  ELSE to_string(n \div 10) \o <<48 + (n % 10)>>

(***************************************************************************)
(* The state.                                                              *)
(***************************************************************************)
Sessions == {1, 2}

VARIABLES
  \* the server's main(): the accept loop
  acceptorPc,       \* "accept" | "detach"
  accepted,         \* clientSocket of main(): the connection just accepted, or 0
  backlog,          \* connections made by a peer and not yet accepted
  \* handle_client, one thread per connection
  pc,               \* "none" | "recv_cmd" | "wait_start" | "stream" | "upload_recv" | "done"
  sock,             \* SocketType clientSocket: "none" | "open" | "closed"
  isAuthenticated,  \* bool isAuthenticated
  inFile,           \* std::ifstream file (DOWNLOAD)
  outFile,          \* std::ofstream outFile (UPLOAD)
  fileSize,         \* long long fileSize (UPLOAD)
  bytesReceived,    \* long long bytesReceived (UPLOAD)
  logged,           \* the line handle_client logs when it leaves the loop or
                    \*   gives a download up
  \* the storage directory server_files
  rootExists,       \* the directory exists
  serverFiles,      \* its regular files: name -> content
  \* the connections
  toServer,         \* wire messages sent by the peer, not yet received
  toClient,         \* wire messages sent by the server, not yet received
  conn,             \* the peer's end: "idle" | "open" | "closed"
  \* a peer that is not the reference client
  peerSends,        \* the number of messages the peers have sent
  \* the reference client
  cpc,              \* where the client is: "off" | "auth_prompt" | "auth_wait" |
                    \*   "prompt" | "list_wait" | "dl_wait_ok" | "dl_recv" |
                    \*   "dl_wait_done" | "ul_wait_ok" | "ul_send" |
                    \*   "ul_wait_final" | "exit"
  cName,            \* filename of handleDownload / handleUpload
  cSize,            \* long long fileSize of handleDownload
  cReceived,        \* long long bytesReceived of handleDownload
  cIn,              \* std::ifstream file of handleUpload
  clientFiles,      \* the directory client_files: name -> content
  cResponse,        \* the response or done_signal received last
  cDone,            \* how the last download ended: "none" | "complete" |
                    \*   "warning" | "failed"
  uploaded,         \* the file as it was when the last upload began
  cInputs,          \* the number of lines the user has typed
  \* the codec applied to an input on its own
  codec,            \* the input and the results of encryptDecrypt on it
  \* the global of server.cpp that every session thread reads
  validUsers        \* std::map VALID_USERS: user -> password

vars == <<acceptorPc, accepted, backlog, pc, sock, isAuthenticated, inFile, outFile,
          fileSize, bytesReceived, logged, rootExists, serverFiles, toServer, toClient,
          conn, peerSends, cpc, cName, cSize, cReceived, cIn, clientFiles,
          cResponse, cDone, uploaded, cInputs, codec, validUsers>>

\* The variables of the reference client.
clientVars == <<cpc, cName, cSize, cReceived, cIn, clientFiles, cResponse, cDone,
                uploaded, cInputs>>

\* A file stream that is not open.
NoFile == [open |-> FALSE, name |-> <<>>, pos |-> 0, eof |-> FALSE]
OpenFile(name) == [open |-> TRUE, name |-> name, pos |-> 0, eof |-> FALSE]

(***************************************************************************)
(* The message channel.                                                    *)
(***************************************************************************)
\* One recv(sock, buffer, BUFFER_SIZE): the bytes it returns, and the queue
\* it leaves.
RecvBytes(q) == SubSeq(Head(q), 1, Min(Len(Head(q)), BUFFER_SIZE))
RecvRest(q) ==
  IF Len(Head(q)) > BUFFER_SIZE
  THEN <<SubSeq(Head(q), BUFFER_SIZE + 1, Len(Head(q)))>> \o Tail(q)
  ELSE Tail(q)

\* recv() on the server returns: bytes are waiting, or the peer has closed.
CanReceive(s) == toServer[s] # <<>> \/ conn[s] = "closed"

\* receiveCommand: "" when recv returns no byte (the peer closed).
receiveCommand(s) ==
  IF toServer[s] = <<>> THEN <<>> ELSE encryptDecrypt(RecvBytes(toServer[s]))

\* sendResponse: q is the connection's queue to the client.
sendResponse(q, response) == Append(q, encryptDecrypt(response))

(***************************************************************************)
(* The server: main().                                                     *)
(***************************************************************************)
\* accept() returns a connection; std::thread clientThread(handle_client, ...)
Accept(s) ==
  /\ acceptorPc = "accept"
  /\ s \in backlog
  /\ backlog' = backlog \ {s}
  /\ accepted' = s
  /\ acceptorPc' = "detach"
  /\ sock' = [sock EXCEPT ![s] = "open"]
  /\ pc' = [pc EXCEPT ![s] = "recv_cmd"]
  /\ isAuthenticated' = [isAuthenticated EXCEPT ![s] = FALSE]
  /\ UNCHANGED <<inFile, outFile, fileSize, bytesReceived, rootExists,
                 serverFiles, toServer, toClient, conn, peerSends, logged,
                 clientVars, codec, validUsers>>

\* A faulty main(): clientThread.join(), which waits for the session to end.
ThreadJoined(s) == pc[s] = "done"

\* What main() waits for before it accepts again: clientThread.detach()
\* waits for nothing.
ThreadReleased(s) == TRUE

Detach ==
  /\ acceptorPc = "detach"
  /\ ThreadReleased(accepted)
  /\ acceptorPc' = "accept"
  /\ accepted' = 0
  /\ UNCHANGED <<backlog, pc, sock, isAuthenticated, inFile, outFile, fileSize,
                 bytesReceived, rootExists, serverFiles, toServer, toClient,
                 conn, peerSends, logged,
                 clientVars, codec, validUsers>>

(***************************************************************************)
(* The server: handle_client.  Each operator below states the effect of    *)
(* one branch of the command loop on the session's variables, the storage  *)
(* and the queue to the client; the actions that use them take the message *)
(* off the queue to the server.                                            *)
(***************************************************************************)
\* log(line); break; then CLOSE_SOCKET(clientSocket)
LeaveLoop(s, line) ==
  /\ logged' = [logged EXCEPT ![s] = line]
  /\ pc' = [pc EXCEPT ![s] = "done"]
  /\ sock' = [sock EXCEPT ![s] = "closed"]
  /\ UNCHANGED <<isAuthenticated, inFile, outFile, fileSize, bytesReceived,
                 serverFiles, toClient>>

\* A faulty handler: the fault ends the thread and the socket is not closed.
CatchFaultNoClose(s) ==
  /\ logged' = [logged EXCEPT ![s] = "Error handling client"]
  /\ pc' = [pc EXCEPT ![s] = "done"]
  /\ inFile' = [inFile EXCEPT ![s] = NoFile]
  /\ outFile' = [outFile EXCEPT ![s] = NoFile]
  /\ UNCHANGED <<sock, isAuthenticated, fileSize, bytesReceived, serverFiles, toClient>>

\* catch (const std::exception&), then CLOSE_SOCKET(clientSocket); the
\* streams of the command are destroyed as the stack unwinds.
CatchFault(s) ==
  /\ logged' = [logged EXCEPT ![s] = "Error handling client"]
  /\ pc' = [pc EXCEPT ![s] = "done"]
  /\ sock' = [sock EXCEPT ![s] = "closed"]
  /\ inFile' = [inFile EXCEPT ![s] = NoFile]
  /\ outFile' = [outFile EXCEPT ![s] = NoFile]
  /\ UNCHANGED <<isAuthenticated, fileSize, bytesReceived, serverFiles, toClient>>

\* A faulty check: the user is known and the password is some user's.
AuthenticateAnyPassword(user, pass) ==
  user \in DOMAIN validUsers /\ \E u \in DOMAIN validUsers : validUsers[u] = pass

\* VALID_USERS.count(user) && VALID_USERS[user] == pass
Authenticate(user, pass) ==
  user \in DOMAIN validUsers /\ validUsers[user] = pass

\* VALID_USERS[user]: operator[] of std::map adds the key, with an empty
\* password, when the map does not hold it.
Subscript(table, user) ==
  [u \in DOMAIN table \cup {user} |-> IF u \in DOMAIN table THEN table[u] ELSE <<>>]

\* A faulty check, VALID_USERS[user] == pass with no count before it: the
\* subscript is evaluated for every user.
TableAfterSubscript(table, user) == Subscript(table, user)

\* The map after VALID_USERS.count(user) && VALID_USERS[user] == pass: the
\* right operand of && is evaluated only when the map holds the user.
TableAfterAuthenticate(table, user) ==
  IF user \in DOMAIN table THEN Subscript(table, user) ELSE table

\* A faulty gate: QUIT is obeyed before the session is authenticated.
HandleUnauthenticatedQuit(s, cmd) ==
  IF ExtractWord(cmd, 1).word = QUIT
  THEN LeaveLoop(s, "Client sent QUIT")
  ELSE /\ toClient' = [toClient EXCEPT ![s] =
            sendResponse(@, IF ExtractWord(cmd, 1).word = AUTH
                            THEN AUTH_FAIL ELSE ERR_AUTH_REQUIRED)]
       /\ UNCHANGED <<pc, sock, isAuthenticated, inFile, outFile, fileSize,
                      bytesReceived, serverFiles, logged>>

\* if (!isAuthenticated) { ... continue; }
HandleUnauthenticated(s, cmd) ==
  LET command == ExtractWord(cmd, 1)
      user    == ExtractWord(cmd, command.next)
      pass    == ExtractWord(cmd, user.next)
  IN  /\ IF command.word = AUTH
         THEN IF Authenticate(user.word, pass.word)
              THEN /\ isAuthenticated' = [isAuthenticated EXCEPT ![s] = TRUE]
                   /\ toClient' = [toClient EXCEPT ![s] = sendResponse(@, AUTH_SUCCESS)]
              ELSE /\ toClient' = [toClient EXCEPT ![s] = sendResponse(@, AUTH_FAIL)]
                   /\ UNCHANGED isAuthenticated
         ELSE /\ toClient' = [toClient EXCEPT ![s] = sendResponse(@, ERR_AUTH_REQUIRED)]
              /\ UNCHANGED isAuthenticated
      /\ UNCHANGED <<pc, sock, inFile, outFile, fileSize, bytesReceived, serverFiles, logged>>

\* The orders in which std::filesystem::directory_iterator may give the
\* entries of a directory (the order is unspecified).
Orders(S) ==
  {o \in [1..Cardinality(S) -> S] : \A i, j \in 1..Cardinality(S) : o[i] = o[j] => i = j}

\* A faulty listing: the names are joined by "\n", with none after the last.
RECURSIVE FileListJoined(_)
FileListJoined(order) ==
  IF order = <<>> THEN <<>>
  ELSE IF Len(order) = 1 THEN Head(order)
  ELSE Head(order) \o NL \o FileListJoined(Tail(order))

\* fileList += entry.path().filename().string() + "\n", for each entry
RECURSIVE FileList(_)
FileList(order) ==
  IF order = <<>> THEN <<>>
  ELSE Head(order) \o NL \o FileList(Tail(order))

\* command == "LIST"; directory_iterator throws when the directory is missing
HandleList(s) ==
  IF rootExists
  THEN /\ \E order \in Orders(DOMAIN serverFiles) :
            toClient' = [toClient EXCEPT ![s] =
                           sendResponse(@, LIST_HEADER \o FileList(order))]
       /\ UNCHANGED <<pc, sock, isAuthenticated, inFile, outFile, fileSize,
                      bytesReceived, serverFiles, logged>>
  ELSE CatchFault(s)

\* What tellg() reports for the storage root itself when the platform lets a
\* directory be opened for reading (POSIX does; reading from it then fails).
DirectorySizes == {0, BUFFER_SIZE}

\* A faulty DOWNLOAD: a missing file is announced with size 0 and awaited
\* like an existing one.
HandleDownloadWaits(s, cmd) ==
  LET command  == ExtractWord(cmd, 1)
      filename == ExtractWord(cmd, command.next).word
      size     == IF rootExists /\ filename \in DOMAIN serverFiles
                  THEN Len(serverFiles[filename]) ELSE 0
  IN  /\ inFile' = [inFile EXCEPT ![s] = OpenFile(filename)]
      /\ toClient' = [toClient EXCEPT ![s] =
           sendResponse(@, OK_DOWNLOAD \o SP \o to_string(size))]
      /\ pc' = [pc EXCEPT ![s] = "wait_start"]
      /\ UNCHANGED <<sock, isAuthenticated, outFile, fileSize, bytesReceived,
                     serverFiles, logged>>

\* command == "DOWNLOAD", up to the wait for START.  With no filename the
\* path is the storage root itself: whether a directory opens as a stream,
\* and the size it then reports, is the platform's choice.
HandleDownload(s, cmd) ==
  LET command  == ExtractWord(cmd, 1)
      filename == ExtractWord(cmd, command.next).word
      Opened(size) ==
        /\ inFile' = [inFile EXCEPT ![s] = OpenFile(filename)]
        /\ toClient' = [toClient EXCEPT ![s] =
             sendResponse(@, OK_DOWNLOAD \o SP \o to_string(size))]
        /\ pc' = [pc EXCEPT ![s] = "wait_start"]
        /\ UNCHANGED <<sock, isAuthenticated, outFile, fileSize, bytesReceived,
                       serverFiles, logged>>
      NotFound ==
        /\ toClient' = [toClient EXCEPT ![s] = sendResponse(@, ERR_NOT_FOUND)]
        /\ UNCHANGED <<pc, sock, isAuthenticated, inFile, outFile, fileSize,
                       bytesReceived, serverFiles, logged>>
  IN  IF rootExists /\ filename \in DOMAIN serverFiles
      THEN Opened(Len(serverFiles[filename]))
      ELSE IF rootExists /\ filename = <<>>
      THEN NotFound \/ \E size \in DirectorySizes : Opened(size)
      ELSE NotFound

\* A faulty verdict: an upload that overshoots counts as complete.
UploadVerdictAtLeast(received, size) ==
  IF received >= size THEN UPLOAD_SUCCESS ELSE ERR_INCOMPLETE

\* if (bytesReceived == fileSize) UPLOAD_SUCCESS else ERROR Upload incomplete.
UploadVerdict(received, size) ==
  IF received = size THEN UPLOAD_SUCCESS ELSE ERR_INCOMPLETE

\* A faulty loop test: while (bytesReceived <= fileSize).
UploadContinuesThrough(received, size) == received <= size

\* while (bytesReceived < fileSize)
UploadContinues(received, size) == received < size

\* outFile.write(chunk) at the stream's position; a position past the end
\* of the file (another session has truncated it) leaves a gap of zeros.
WriteAt(content, pos, chunk) ==
  [i \in 1..(IF pos + Len(chunk) > Len(content) THEN pos + Len(chunk) ELSE Len(content)) |->
     IF i > pos /\ i <= pos + Len(chunk) THEN chunk[i - pos]
     ELSE IF i <= Len(content) THEN content[i]
     ELSE 0]

\* A faulty open: an existing file keeps its content (no truncation).
CreateFileKeeps(files, filename) ==
  [n \in DOMAIN files \cup {filename} |-> IF n \in DOMAIN files THEN files[n] ELSE <<>>]

\* std::ofstream outFile(filepath, std::ios::binary) creates or truncates
CreateFile(files, filename) ==
  [n \in DOMAIN files \cup {filename} |-> IF n = filename THEN <<>> ELSE files[n]]

\* A faulty UPLOAD: the file is refused while another session has it open.
HandleUploadExclusive(s, cmd) ==
  LET command  == ExtractWord(cmd, 1)
      filename == ExtractWord(cmd, command.next)
      size     == ExtractInt(cmd, filename.next)
      busy     == \E o \in Sessions \ {s} :
                    \/ inFile[o].open /\ inFile[o].name = filename.word
                    \/ outFile[o].open /\ outFile[o].name = filename.word
  IN  IF rootExists /\ filename.word # <<>> /\ ~busy
      THEN /\ serverFiles' = CreateFile(serverFiles, filename.word)
           /\ fileSize' = [fileSize EXCEPT ![s] = size]
           /\ bytesReceived' = [bytesReceived EXCEPT ![s] = 0]
           /\ IF UploadContinues(0, size)
              THEN /\ outFile' = [outFile EXCEPT ![s] = OpenFile(filename.word)]
                   /\ toClient' = [toClient EXCEPT ![s] = sendResponse(@, OK_UPLOAD)]
                   /\ pc' = [pc EXCEPT ![s] = "upload_recv"]
              ELSE /\ toClient' = [toClient EXCEPT ![s] =
                        sendResponse(sendResponse(@, OK_UPLOAD), UploadVerdict(0, size))]
                   /\ UNCHANGED <<pc, outFile>>
           /\ UNCHANGED <<sock, isAuthenticated, inFile, logged>>
      ELSE /\ toClient' = [toClient EXCEPT ![s] = sendResponse(@, ERR_CANNOT_CREATE)]
           /\ UNCHANGED <<pc, sock, isAuthenticated, inFile, outFile, fileSize,
                          bytesReceived, serverFiles, logged>>

\* command == "UPLOAD", up to the first receive of the loop, or to the
\* verdict when the loop does not run
HandleUpload(s, cmd) ==
  LET command  == ExtractWord(cmd, 1)
      filename == ExtractWord(cmd, command.next)
      size     == ExtractInt(cmd, filename.next)
  IN  IF rootExists /\ filename.word # <<>>
      THEN /\ serverFiles' = CreateFile(serverFiles, filename.word)
           /\ fileSize' = [fileSize EXCEPT ![s] = size]
           /\ bytesReceived' = [bytesReceived EXCEPT ![s] = 0]
           /\ IF UploadContinues(0, size)
              THEN /\ outFile' = [outFile EXCEPT ![s] = OpenFile(filename.word)]
                   /\ toClient' = [toClient EXCEPT ![s] = sendResponse(@, OK_UPLOAD)]
                   /\ pc' = [pc EXCEPT ![s] = "upload_recv"]
              ELSE /\ toClient' = [toClient EXCEPT ![s] =
                        sendResponse(sendResponse(@, OK_UPLOAD), UploadVerdict(0, size))]
                   /\ UNCHANGED <<pc, outFile>>
           /\ UNCHANGED <<sock, isAuthenticated, inFile, logged>>
      ELSE /\ toClient' = [toClient EXCEPT ![s] = sendResponse(@, ERR_CANNOT_CREATE)]
           /\ UNCHANGED <<pc, sock, isAuthenticated, inFile, outFile, fileSize,
                          bytesReceived, serverFiles, logged>>

\* A faulty last branch: the unknown command ends the session.
HandleUnknownCloses(s) ==
  /\ toClient' = [toClient EXCEPT ![s] = sendResponse(@, ERR_UNKNOWN)]
  /\ logged' = [logged EXCEPT ![s] = "Client sent QUIT"]
  /\ pc' = [pc EXCEPT ![s] = "done"]
  /\ sock' = [sock EXCEPT ![s] = "closed"]
  /\ UNCHANGED <<isAuthenticated, inFile, outFile, fileSize, bytesReceived,
                 serverFiles>>

\* the last else: sendResponse(clientSocket, "ERROR Unknown command.")
HandleUnknown(s) ==
  /\ toClient' = [toClient EXCEPT ![s] = sendResponse(@, ERR_UNKNOWN)]
  /\ UNCHANGED <<pc, sock, isAuthenticated, inFile, outFile, fileSize,
                 bytesReceived, serverFiles, logged>>

\* A faulty dispatch: the QUIT branch is missing.
DispatchWithoutQuit(s, cmd) ==
  LET command == ExtractWord(cmd, 1).word
  IN  IF command = LIST THEN HandleList(s)
      ELSE IF command = DOWNLOAD THEN HandleDownload(s, cmd)
      ELSE IF command = UPLOAD THEN HandleUpload(s, cmd)
      ELSE HandleUnknown(s)

\* A faulty dispatch: an AUTH of an authenticated session is checked again,
\* and a rejected one takes the authentication away.
DispatchReauthenticates(s, cmd) ==
  LET command == ExtractWord(cmd, 1)
      user    == ExtractWord(cmd, command.next)
      pass    == ExtractWord(cmd, user.next)
  IN  IF command.word = AUTH
      THEN /\ isAuthenticated' = [isAuthenticated EXCEPT ![s] = Authenticate(user.word, pass.word)]
           /\ toClient' = [toClient EXCEPT ![s] =
                sendResponse(@, IF Authenticate(user.word, pass.word)
                                THEN AUTH_SUCCESS ELSE AUTH_FAIL)]
           /\ UNCHANGED <<pc, sock, inFile, outFile, fileSize, bytesReceived,
                          serverFiles, logged>>
      ELSE IF command.word = LIST THEN HandleList(s)
      ELSE IF command.word = DOWNLOAD THEN HandleDownload(s, cmd)
      ELSE IF command.word = UPLOAD THEN HandleUpload(s, cmd)
      ELSE IF command.word = QUIT THEN LeaveLoop(s, "Client sent QUIT")
      ELSE HandleUnknown(s)

\* The dispatch on the first word of an authenticated session's command.
Dispatch(s, cmd) ==
  LET command == ExtractWord(cmd, 1).word
  IN  IF command = LIST THEN HandleList(s)
      ELSE IF command = DOWNLOAD THEN HandleDownload(s, cmd)
      ELSE IF command = UPLOAD THEN HandleUpload(s, cmd)
      ELSE IF command = QUIT THEN LeaveLoop(s, "Client sent QUIT")
      ELSE HandleUnknown(s)

\* One turn of while (true): receive a command and serve it up to the next
\* receive.
ServeCommand(s) ==
  /\ pc[s] = "recv_cmd"
  /\ CanReceive(s)
  /\ LET cmd == receiveCommand(s)
     IN  IF cmd = <<>> THEN LeaveLoop(s, "Client disconnected abruptly")
         ELSE IF ~isAuthenticated[s] THEN HandleUnauthenticated(s, cmd)
         ELSE Dispatch(s, cmd)
  /\ LET cmd     == receiveCommand(s)
         command == ExtractWord(cmd, 1)
         user    == ExtractWord(cmd, command.next)
     IN  validUsers' = IF cmd # <<>> /\ ~isAuthenticated[s] /\ command.word = AUTH
                       THEN TableAfterAuthenticate(validUsers, user.word)
                       ELSE validUsers
  /\ toServer' = [toServer EXCEPT ![s] = IF @ = <<>> THEN @ ELSE RecvRest(@)]
  /\ UNCHANGED <<acceptorPc, accepted, backlog, rootExists, conn, peerSends,
                 clientVars, codec>>

\* A faulty test: the first word of the message is START.
IsStartWord(cmd) == ExtractWord(cmd, 1).word = START

\* receiveCommand(clientSocket) == "START"
IsStart(cmd) == cmd = START

\* A faulty wait: a message that is not START is dispatched as a command.
AwaitStartDispatches(s) ==
  /\ pc[s] = "wait_start"
  /\ CanReceive(s)
  /\ IF IsStart(receiveCommand(s))
     THEN /\ pc' = [pc EXCEPT ![s] = "stream"]
          /\ UNCHANGED <<sock, isAuthenticated, inFile, outFile, fileSize,
                         bytesReceived, serverFiles, toClient, logged>>
     ELSE IF receiveCommand(s) = <<>>
     THEN LeaveLoop(s, "Client disconnected")
     ELSE Dispatch(s, receiveCommand(s))
  /\ toServer' = [toServer EXCEPT ![s] = IF @ = <<>> THEN @ ELSE RecvRest(@)]
  /\ UNCHANGED <<acceptorPc, accepted, backlog, rootExists, conn, peerSends,
                 clientVars, codec, validUsers>>

\* if (receiveCommand(clientSocket) != "START") continue;
AwaitStart(s) ==
  /\ pc[s] = "wait_start"
  /\ CanReceive(s)
  /\ IF ~IsStart(receiveCommand(s))
     THEN /\ pc' = [pc EXCEPT ![s] = "recv_cmd"]
          /\ inFile' = [inFile EXCEPT ![s] = NoFile]
          /\ logged' = [logged EXCEPT ![s] = "Client did not start transfer"]
     ELSE /\ pc' = [pc EXCEPT ![s] = "stream"]
          /\ UNCHANGED <<inFile, logged>>
  /\ toServer' = [toServer EXCEPT ![s] = IF @ = <<>> THEN @ ELSE RecvRest(@)]
  /\ UNCHANGED <<acceptorPc, accepted, backlog, sock, isAuthenticated, outFile,
                 fileSize, bytesReceived, rootExists, serverFiles, toClient,
                 conn, peerSends, clientVars, codec, validUsers>>

\* A faulty loop, while (file.read(...)): a block that is not full is
\* dropped.
ReadFullBlock(f) ==
  IF f.eof \/ f.name \notin DOMAIN serverFiles
     \/ Len(serverFiles[f.name]) < f.pos + BUFFER_SIZE
  THEN <<>>
  ELSE SubSeq(serverFiles[f.name], f.pos + 1, f.pos + BUFFER_SIZE)

\* A faulty read: a buffer of twice BUFFER_SIZE.
ReadLongBlock(f) ==
  IF f.eof \/ f.name \notin DOMAIN serverFiles THEN <<>>
  ELSE SubSeq(serverFiles[f.name], f.pos + 1,
              Min(Len(serverFiles[f.name]), f.pos + 2 * BUFFER_SIZE))

\* file.read(fileBuffer, sizeof(fileBuffer)): the bytes it gets (gcount).
\* A read that gets fewer than BUFFER_SIZE bytes sets eofbit and failbit:
\* every later read gets nothing.
ReadBlock(f) ==
  IF f.eof \/ f.name \notin DOMAIN serverFiles THEN <<>>
  ELSE SubSeq(serverFiles[f.name], f.pos + 1,
              Min(Len(serverFiles[f.name]), f.pos + BUFFER_SIZE))

\* One turn of while (file.read(...) || file.gcount() > 0), or the end of
\* the loop: file.close() and DOWNLOAD_DONE.
StreamChunk(s) ==
  /\ pc[s] = "stream"
  /\ LET chunk == ReadBlock(inFile[s])
     IN  IF chunk # <<>>
         THEN /\ toClient' = [toClient EXCEPT ![s] = sendResponse(@, chunk)]
              /\ inFile' = [inFile EXCEPT ![s] =
                              [@ EXCEPT !.pos = @ + Len(chunk),
                                        !.eof = Len(chunk) < BUFFER_SIZE]]
              /\ UNCHANGED pc
         ELSE /\ toClient' = [toClient EXCEPT ![s] = sendResponse(@, DOWNLOAD_DONE)]
              /\ inFile' = [inFile EXCEPT ![s] = NoFile]
              /\ pc' = [pc EXCEPT ![s] = "recv_cmd"]
  /\ UNCHANGED <<acceptorPc, accepted, backlog, sock, isAuthenticated, outFile,
                 fileSize, bytesReceived, rootExists, serverFiles, toServer,
                 conn, peerSends, logged,
                 clientVars, codec, validUsers>>

\* One turn of while (bytesReceived < fileSize), and what follows the loop
\* when this turn is its last.
UploadReceive(s) ==
  /\ pc[s] = "upload_recv"
  /\ CanReceive(s)
  /\ LET chunk    == receiveCommand(s)
         received == bytesReceived[s] + Len(chunk)
         f        == outFile[s]
     IN  /\ bytesReceived' = [bytesReceived EXCEPT ![s] = received]
         /\ serverFiles' =
              IF chunk # <<>> /\ f.name \in DOMAIN serverFiles
              THEN [serverFiles EXCEPT ![f.name] = WriteAt(@, f.pos, chunk)]
              ELSE serverFiles
         /\ IF chunk # <<>> /\ UploadContinues(received, fileSize[s])
            THEN /\ outFile' = [outFile EXCEPT ![s] = [@ EXCEPT !.pos = @ + Len(chunk)]]
                 /\ UNCHANGED <<pc, toClient>>
            ELSE /\ outFile' = [outFile EXCEPT ![s] = NoFile]
                 /\ toClient' = [toClient EXCEPT ![s] =
                                   sendResponse(@, UploadVerdict(received, fileSize[s]))]
                 /\ pc' = [pc EXCEPT ![s] = "recv_cmd"]
  /\ toServer' = [toServer EXCEPT ![s] = IF @ = <<>> THEN @ ELSE RecvRest(@)]
  /\ UNCHANGED <<acceptorPc, accepted, backlog, sock, isAuthenticated, inFile,
                 fileSize, rootExists, conn, peerSends, logged,
                 clientVars, codec, validUsers>>

(***************************************************************************)
(* The peers.  A peer is any program that connects to the port; the        *)
(* messages it sends are drawn from PeerMessages.  It sends a message when *)
(* the connection is accepted and the server has taken the message before, *)
(* after reading the replies that have arrived.                            *)
(***************************************************************************)
\* The most messages the peers send, all together
MaxPeerSends == 3

A_TXT == <<97, 46, 116, 120, 116>>                                     \* "a.txt"

PeerMessages ==
  { AUTH \o SP \o <<117, 115, 101, 114>> \o SP \o <<112, 97, 115, 115, 49, 50, 51>>,
                                                      \* "AUTH user pass123"
    AUTH \o SP \o <<117, 115, 101, 114>> \o SP \o <<97, 100, 109, 105, 110, 112, 97, 115, 115>>,
                                                      \* "AUTH user adminpass"
    AUTH \o SP \o <<110, 111, 117, 115, 101, 114>> \o SP \o <<120>>,
                                                      \* "AUTH nouser x"
    LIST,
    DOWNLOAD \o SP \o A_TXT,                          \* "DOWNLOAD a.txt"
    UPLOAD \o SP \o A_TXT \o SP \o <<50>>,            \* "UPLOAD a.txt 2"
    QUIT,
    <<70, 79, 79>>,                                   \* "FOO"
    START,
    <<120>>,                                          \* "x"
    <<120, 121, 122>> }                               \* "xyz"

\* What the peer writes to the socket: the messages, encoded.
PeerWire == {encryptDecrypt(m) : m \in PeerMessages}

PeerConnect(s) ==
  /\ conn[s] = "idle"
  /\ conn' = [conn EXCEPT ![s] = "open"]
  /\ backlog' = backlog \cup {s}
  /\ UNCHANGED <<acceptorPc, accepted, pc, sock, isAuthenticated, inFile, outFile,
                 fileSize, bytesReceived, rootExists, serverFiles, toServer,
                 toClient, peerSends, logged,
                 clientVars, codec, validUsers>>

PeerSend(s, w, max) ==
  /\ conn[s] = "open"
  /\ sock[s] = "open"
  /\ toServer[s] = <<>>
  /\ peerSends < max
  /\ toServer' = [toServer EXCEPT ![s] = Append(@, w)]
  /\ toClient' = [toClient EXCEPT ![s] = <<>>]
  /\ peerSends' = peerSends + 1
  /\ UNCHANGED <<clientVars, codec, validUsers>>
  /\ UNCHANGED <<acceptorPc, accepted, backlog, pc, sock, isAuthenticated, inFile,
                 outFile, fileSize, bytesReceived, rootExists, serverFiles, conn, logged>>

PeerClose(s) ==
  /\ conn[s] = "open"
  /\ conn' = [conn EXCEPT ![s] = "closed"]
  /\ UNCHANGED <<acceptorPc, accepted, backlog, pc, sock, isAuthenticated, inFile,
                 outFile, fileSize, bytesReceived, rootExists, serverFiles,
                 toServer, toClient, peerSends, logged,
                 clientVars, codec, validUsers>>

\* The storage directory is removed from outside the program (rmdir of the
\* empty directory).
RemoveStorageRoot ==
  /\ rootExists
  /\ DOMAIN serverFiles = {}
  /\ rootExists' = FALSE
  /\ UNCHANGED <<acceptorPc, accepted, backlog, pc, sock, isAuthenticated, inFile,
                 outFile, fileSize, bytesReceived, serverFiles, toServer,
                 toClient, conn, peerSends, logged,
                 clientVars, codec, validUsers>>

(***************************************************************************)
(* The reference client (client.cpp), on the connection ClientSession.     *)
(***************************************************************************)
\* The most lines the user types at the client's prompts (a name and its
\* password count as one)
MaxClientInputs == 3

ClientSession == 1

LIST_LINE     == <<108, 105, 115, 116>>                                \* "list"
DOWNLOAD_LINE == <<100, 111, 119, 110, 108, 111, 97, 100>>             \* "download"
UPLOAD_LINE   == <<117, 112, 108, 111, 97, 100>>                       \* "upload"
QUIT_LINE     == <<113, 117, 105, 116>>                                \* "quit"

\* No upload has been made.
NoUpload == [name |-> <<>>, content |-> <<>>, made |-> FALSE]

\* recv() on the client returns: bytes are waiting, or the server has closed.
ClientCanReceive == toClient[ClientSession] # <<>> \/ sock[ClientSession] = "closed"

\* receiveResponse: "" when recv returns no byte.
receiveResponse ==
  IF toClient[ClientSession] = <<>> THEN <<>>
  ELSE encryptDecryptClient(RecvBytes(toClient[ClientSession]))

\* The queue of the connection after the recv() of receiveResponse.
ClientRecv ==
  toClient' = [toClient EXCEPT ![ClientSession] = IF @ = <<>> THEN @ ELSE RecvRest(@)]

\* sendCommand: q is the connection's queue to the server.
sendCommand(q, cmd) == Append(q, encryptDecryptClient(cmd))

\* connect()
ClientConnect ==
  /\ cpc = "off"
  /\ conn[ClientSession] = "idle"
  /\ conn' = [conn EXCEPT ![ClientSession] = "open"]
  /\ backlog' = backlog \cup {ClientSession}
  /\ cpc' = "auth_prompt"
  /\ UNCHANGED <<acceptorPc, accepted, pc, sock, isAuthenticated, inFile, outFile,
                 fileSize, bytesReceived, logged, rootExists, serverFiles,
                 toServer, toClient, peerSends, cName, cSize, cReceived, cIn,
                 clientFiles, cResponse, cDone, uploaded, cInputs, codec, validUsers>>

\* The user types a name and a password; sendCommand("AUTH " + user + " " + pass)
ClientAuth(cred) ==
  /\ cpc = "auth_prompt"
  /\ cInputs < MaxClientInputs
  /\ toServer' = [toServer EXCEPT ![ClientSession] =
                    sendCommand(@, AUTH \o SP \o cred.user \o SP \o cred.pass)]
  /\ cpc' = "auth_wait"
  /\ cInputs' = cInputs + 1
  /\ UNCHANGED <<acceptorPc, accepted, backlog, pc, sock, isAuthenticated, inFile,
                 outFile, fileSize, bytesReceived, logged, rootExists, serverFiles,
                 toClient, conn, peerSends, cName, cSize, cReceived, cIn,
                 clientFiles, cResponse, cDone, uploaded, codec, validUsers>>

\* A faulty client: any response ends the authentication loop.
ClientAuthResponseAny ==
  /\ cpc = "auth_wait"
  /\ ClientCanReceive
  /\ cResponse' = receiveResponse
  /\ ClientRecv
  /\ cpc' = "prompt"
  /\ UNCHANGED <<acceptorPc, accepted, backlog, pc, sock, isAuthenticated, inFile,
                 outFile, fileSize, bytesReceived, logged, rootExists, serverFiles,
                 toServer, conn, peerSends, cName, cSize, cReceived, cIn,
                 clientFiles, cDone, uploaded, cInputs, codec, validUsers>>

\* response == "AUTH_SUCCESS" ends the loop; anything else asks again
ClientAuthResponse ==
  /\ cpc = "auth_wait"
  /\ ClientCanReceive
  /\ cResponse' = receiveResponse
  /\ ClientRecv
  /\ cpc' = IF receiveResponse = AUTH_SUCCESS THEN "prompt" ELSE "auth_prompt"
  /\ UNCHANGED <<acceptorPc, accepted, backlog, pc, sock, isAuthenticated, inFile,
                 outFile, fileSize, bytesReceived, logged, rootExists, serverFiles,
                 toServer, conn, peerSends, cName, cSize, cReceived, cIn,
                 clientFiles, cDone, uploaded, cInputs, codec, validUsers>>

\* The user types a line at the prompt of the command loop.  For "upload"
\* the step runs handleUpload up to its sendCommand, for "quit" up to
\* CLOSE_SOCKET.
ClientCommand(line) ==
  /\ cpc = "prompt"
  /\ cInputs < MaxClientInputs
  /\ cInputs' = cInputs + 1
  /\ LET command  == ExtractWord(line, 1)
         filename == ExtractWord(line, command.next).word
     IN  IF command.word = LIST_LINE
         THEN /\ toServer' = [toServer EXCEPT ![ClientSession] = sendCommand(@, LIST)]
              /\ cpc' = "list_wait"
              /\ UNCHANGED <<conn, cName, cIn, cDone, uploaded>>
         ELSE IF command.word = DOWNLOAD_LINE /\ filename # <<>>
         THEN /\ toServer' = [toServer EXCEPT ![ClientSession] =
                                sendCommand(@, DOWNLOAD \o SP \o filename)]
              /\ cName' = filename
              /\ cDone' = "none"
              /\ cpc' = "dl_wait_ok"
              /\ UNCHANGED <<conn, cIn, uploaded>>
         ELSE IF command.word = UPLOAD_LINE /\ filename \in DOMAIN clientFiles
         THEN /\ toServer' = [toServer EXCEPT ![ClientSession] =
                   sendCommand(@, UPLOAD \o SP \o filename \o SP
                                    \o to_string(Len(clientFiles[filename])))]
              /\ cName' = filename
              /\ cIn' = OpenFile(filename)
              /\ uploaded' = [name |-> filename, content |-> clientFiles[filename],
                              made |-> TRUE]
              /\ cDone' = "none"
              /\ cpc' = "ul_wait_ok"
              /\ UNCHANGED conn
         ELSE IF command.word = QUIT_LINE
         THEN /\ toServer' = [toServer EXCEPT ![ClientSession] = sendCommand(@, QUIT)]
              /\ conn' = [conn EXCEPT ![ClientSession] = "closed"]
              /\ cpc' = "exit"
              /\ UNCHANGED <<cName, cIn, cDone, uploaded>>
         ELSE UNCHANGED <<toServer, conn, cpc, cName, cIn, cDone, uploaded>>
  /\ UNCHANGED <<acceptorPc, accepted, backlog, pc, sock, isAuthenticated, inFile,
                 outFile, fileSize, bytesReceived, logged, rootExists, serverFiles,
                 toClient, peerSends, cSize, cReceived, clientFiles, cResponse, codec, validUsers>>

\* handleList
ListResponse ==
  /\ cpc = "list_wait"
  /\ ClientCanReceive
  /\ cResponse' = receiveResponse
  /\ ClientRecv
  /\ cpc' = "prompt"
  /\ UNCHANGED <<acceptorPc, accepted, backlog, pc, sock, isAuthenticated, inFile,
                 outFile, fileSize, bytesReceived, logged, rootExists, serverFiles,
                 toServer, conn, peerSends, cName, cSize, cReceived, cIn,
                 clientFiles, cDone, uploaded, cInputs, codec, validUsers>>

\* handleDownload, from its first receiveResponse to the test of the receive
\* loop; opens says whether the destination file can be opened for writing.
DownloadOk(opens) ==
  /\ cpc = "dl_wait_ok"
  /\ ClientCanReceive
  /\ cResponse' = receiveResponse
  /\ ClientRecv
  /\ LET response == receiveResponse
         command  == ExtractWord(response, 1)
         size     == ExtractInt(response, command.next)
     IN  IF command.word # OK_DOWNLOAD
         THEN /\ cpc' = "prompt"
              /\ UNCHANGED <<toServer, cSize, cReceived, clientFiles>>
         ELSE IF ~opens
         THEN /\ toServer' = [toServer EXCEPT ![ClientSession] = sendCommand(@, CANCEL)]
              /\ cSize' = size
              /\ cpc' = "prompt"
              /\ UNCHANGED <<cReceived, clientFiles>>
         ELSE /\ toServer' = [toServer EXCEPT ![ClientSession] = sendCommand(@, START)]
              /\ cSize' = size
              /\ cReceived' = 0
              /\ clientFiles' = CreateFile(clientFiles, cName)
              /\ cpc' = IF 0 < size THEN "dl_recv" ELSE "dl_wait_done"
  /\ UNCHANGED <<acceptorPc, accepted, backlog, pc, sock, isAuthenticated, inFile,
                 outFile, fileSize, bytesReceived, logged, rootExists, serverFiles,
                 conn, peerSends, cName, cIn, cDone, uploaded, cInputs, codec, validUsers>>

\* A faulty client: every byte of the message is written.
BytesToWriteAll(chunk, received, size) == Len(chunk)

\* bytesToWrite: chunk.length(), or fileSize - bytesReceived when the chunk
\* would carry the total past fileSize
BytesToWrite(chunk, received, size) ==
  IF received + Len(chunk) > size THEN size - received ELSE Len(chunk)

\* One turn of while (bytesReceived < fileSize) in handleDownload, and what
\* follows the loop when this turn is its last.
DownloadReceive ==
  /\ cpc = "dl_recv"
  /\ ClientCanReceive
  /\ ClientRecv
  /\ LET chunk        == receiveResponse
         bytesToWrite == BytesToWrite(chunk, cReceived, cSize)
     IN  IF chunk = <<>>
         THEN /\ cDone' = "failed"
              /\ cpc' = "prompt"
              /\ UNCHANGED <<cReceived, clientFiles>>
         ELSE /\ clientFiles' = [clientFiles EXCEPT ![cName] =
                                   @ \o SubSeq(chunk, 1, bytesToWrite)]
              /\ cReceived' = cReceived + bytesToWrite
              /\ cpc' = IF cReceived + bytesToWrite < cSize
                        THEN "dl_recv" ELSE "dl_wait_done"
              /\ UNCHANGED cDone
  /\ UNCHANGED <<acceptorPc, accepted, backlog, pc, sock, isAuthenticated, inFile,
                 outFile, fileSize, bytesReceived, logged, rootExists, serverFiles,
                 toServer, conn, peerSends, cName, cSize, cIn, cResponse,
                 uploaded, cInputs, codec, validUsers>>

\* A faulty client: handleDownload returns without the receive of the
\* completion message.
DownloadDoneSkipped ==
  /\ cpc = "dl_wait_done"
  /\ cDone' = "complete"
  /\ cpc' = "prompt"
  /\ UNCHANGED <<acceptorPc, accepted, backlog, pc, sock, isAuthenticated, inFile,
                 outFile, fileSize, bytesReceived, logged, rootExists, serverFiles,
                 toServer, toClient, conn, peerSends, cName, cSize, cReceived, cIn,
                 clientFiles, cResponse, uploaded, cInputs, codec, validUsers>>

\* done_signal = receiveResponse(sock), compared with "DOWNLOAD_DONE"
DownloadDone ==
  /\ cpc = "dl_wait_done"
  /\ ClientCanReceive
  /\ cResponse' = receiveResponse
  /\ ClientRecv
  /\ cDone' = IF receiveResponse = DOWNLOAD_DONE THEN "complete" ELSE "warning"
  /\ cpc' = "prompt"
  /\ UNCHANGED <<acceptorPc, accepted, backlog, pc, sock, isAuthenticated, inFile,
                 outFile, fileSize, bytesReceived, logged, rootExists, serverFiles,
                 toServer, conn, peerSends, cName, cSize, cReceived, cIn,
                 clientFiles, uploaded, cInputs, codec, validUsers>>

\* handleUpload: response != "OK_UPLOAD" gives the upload up
UploadOk ==
  /\ cpc = "ul_wait_ok"
  /\ ClientCanReceive
  /\ cResponse' = receiveResponse
  /\ ClientRecv
  /\ IF receiveResponse = OK_UPLOAD
     THEN /\ cpc' = "ul_send"
          /\ UNCHANGED cIn
     ELSE /\ cpc' = "prompt"
          /\ cIn' = NoFile
  /\ UNCHANGED <<acceptorPc, accepted, backlog, pc, sock, isAuthenticated, inFile,
                 outFile, fileSize, bytesReceived, logged, rootExists, serverFiles,
                 toServer, conn, peerSends, cName, cSize, cReceived,
                 clientFiles, cDone, uploaded, cInputs, codec, validUsers>>

\* file.read(fileBuffer, sizeof(fileBuffer)) with char fileBuffer[BUFFER_SIZE / 2]
ClientReadBlock(f) ==
  IF f.eof \/ f.name \notin DOMAIN clientFiles THEN <<>>
  ELSE SubSeq(clientFiles[f.name], f.pos + 1,
              Min(Len(clientFiles[f.name]), f.pos + (BUFFER_SIZE \div 2)))

\* One turn of while (file.read(...) || file.gcount() > 0) in handleUpload,
\* or the end of the loop.  send() to a connection the server has closed
\* may fail, and the upload is given up.
UploadSendChunk(sent) ==
  /\ cpc = "ul_send"
  /\ sent \/ sock[ClientSession] = "closed"
  /\ LET chunk == ClientReadBlock(cIn)
     IN  IF chunk = <<>>
         THEN /\ cIn' = NoFile
              /\ cpc' = "ul_wait_final"
              /\ UNCHANGED toServer
         ELSE IF sent
         THEN /\ toServer' = [toServer EXCEPT ![ClientSession] = sendCommand(@, chunk)]
              /\ cIn' = [cIn EXCEPT !.pos = @ + Len(chunk),
                                    !.eof = Len(chunk) < BUFFER_SIZE \div 2]
              /\ UNCHANGED cpc
         ELSE /\ cIn' = NoFile
              /\ cpc' = "prompt"
              /\ UNCHANGED toServer
  /\ UNCHANGED <<acceptorPc, accepted, backlog, pc, sock, isAuthenticated, inFile,
                 outFile, fileSize, bytesReceived, logged, rootExists, serverFiles,
                 toClient, conn, peerSends, cName, cSize, cReceived,
                 clientFiles, cResponse, cDone, uploaded, cInputs, codec, validUsers>>

\* response = receiveResponse(sock), the verdict of the server
UploadFinal ==
  /\ cpc = "ul_wait_final"
  /\ ClientCanReceive
  /\ cResponse' = receiveResponse
  /\ ClientRecv
  /\ cpc' = "prompt"
  /\ UNCHANGED <<acceptorPc, accepted, backlog, pc, sock, isAuthenticated, inFile,
                 outFile, fileSize, bytesReceived, logged, rootExists, serverFiles,
                 toServer, conn, peerSends, cName, cSize, cReceived, cIn,
                 clientFiles, cDone, uploaded, cInputs, codec, validUsers>>

\* What the user types.
Credentials ==
  { [user |-> <<117, 115, 101, 114>>, pass |-> <<112, 97, 115, 115, 49, 50, 51>>],
                                                      \* user, pass123
    [user |-> <<117, 115, 101, 114>>, pass |-> <<119, 114, 111, 110, 103>>] }
                                                      \* user, wrong
UserLines ==
  { LIST_LINE,
    DOWNLOAD_LINE \o SP \o A_TXT,                      \* "download a.txt"
    UPLOAD_LINE \o SP \o A_TXT,                        \* "upload a.txt"
    QUIT_LINE,
    <<>>,
    DOWNLOAD_LINE }                                    \* "download"

\* A step of the client; opens holds the outcomes of opening a destination
\* file.
ClientStep(opens) ==
  \/ ClientConnect
  \/ \E cred \in Credentials : ClientAuth(cred)
  \/ ClientAuthResponse
  \/ \E line \in UserLines : ClientCommand(line)
  \/ ListResponse
  \/ \E o \in opens : DownloadOk(o)
  \/ DownloadReceive
  \/ DownloadDone
  \/ UploadOk
  \/ \E sent \in BOOLEAN : UploadSendChunk(sent)
  \/ UploadFinal

(***************************************************************************)
(* The server with two peers.  main() has created server_files when it was *)
(* missing; the directory is empty or holds a.txt.                         *)
(***************************************************************************)
NoFiles == [n \in {} |-> <<>>]

InitServer ==
  /\ acceptorPc = "accept"
  /\ accepted = 0
  /\ backlog = {}
  /\ pc = [s \in Sessions |-> "none"]
  /\ sock = [s \in Sessions |-> "none"]
  /\ isAuthenticated = [s \in Sessions |-> FALSE]
  /\ inFile = [s \in Sessions |-> NoFile]
  /\ outFile = [s \in Sessions |-> NoFile]
  /\ fileSize = [s \in Sessions |-> 0]
  /\ bytesReceived = [s \in Sessions |-> 0]
  /\ logged = [s \in Sessions |-> ""]
  /\ rootExists = TRUE
  /\ toServer = [s \in Sessions |-> <<>>]
  /\ toClient = [s \in Sessions |-> <<>>]
  /\ conn = [s \in Sessions |-> "idle"]
  /\ peerSends = 0

\* No input has been given to the codec.
NoCodec == [in |-> <<>>, out |-> <<>>, back |-> <<>>, client |-> <<>>, applied |-> 0]

\* The client has not been started; files is its directory client_files.
InitClient(files) ==
  /\ cpc = "off"
  /\ cName = <<>>
  /\ cSize = 0
  /\ cReceived = 0
  /\ cIn = NoFile
  /\ clientFiles = files
  /\ cResponse = <<>>
  /\ cDone = "none"
  /\ uploaded = NoUpload
  /\ cInputs = 0

Init ==
  /\ InitServer
  /\ serverFiles \in {NoFiles, [n \in {A_TXT} |-> <<104, 105>>]}
  /\ InitClient(NoFiles)
  /\ codec = NoCodec
  /\ validUsers = VALID_USERS

\* A step of the thread that runs handle_client for s.
SessionStep(s) ==
  \/ ServeCommand(s)
  \/ AwaitStart(s)
  \/ StreamChunk(s)
  \/ UploadReceive(s)

PeerStep(s) ==
  \/ PeerConnect(s)
  \/ \E w \in PeerWire : PeerSend(s, w, MaxPeerSends)
  \/ PeerClose(s)

\* A step of main().
AcceptorStep ==
  \/ \E s \in Sessions : Accept(s)
  \/ Detach

Next ==
  \/ AcceptorStep
  \/ RemoveStorageRoot
  \/ \E s \in Sessions : SessionStep(s)
  \/ \E s \in Sessions : PeerStep(s)

Spec == Init /\ [][Next]_vars

\* The messages of the peers when progress is checked.
FairWire ==
  {encryptDecrypt(m) : m \in
     { AUTH \o SP \o <<117, 115, 101, 114>> \o SP \o <<112, 97, 115, 115, 49, 50, 51>>,
                                                      \* "AUTH user pass123"
       LIST,
       DOWNLOAD \o SP \o A_TXT,                       \* "DOWNLOAD a.txt"
       UPLOAD \o SP \o A_TXT \o SP \o <<50>>,         \* "UPLOAD a.txt 2"
       START,
       <<120>> }}                                     \* "x"

FairNext ==
  \/ AcceptorStep
  \/ RemoveStorageRoot
  \/ \E s \in Sessions : SessionStep(s)
  \/ \E s \in Sessions : PeerConnect(s)
  \/ \E s \in Sessions : \E w \in FairWire : PeerSend(s, w, MaxPeerSends)
  \/ \E s \in Sessions : PeerClose(s)

\* A session thread can take a step: it is streaming a file, or it is in a
\* recv() that returns (SessionStep(s) is enabled in exactly these states).
SessionReady(s) ==
  \/ pc[s] = "stream"
  \/ pc[s] \in {"recv_cmd", "wait_start", "upload_recv"} /\ CanReceive(s)

\* Weak fairness of the session thread, WF_vars(SessionStep(s)), written
\* with the thread's readiness in the place of ENABLED.
SessionScheduled(s) ==
  []<>(~SessionReady(s)) \/ []<><<SessionStep(s)>>_vars

\* The threads of the server are scheduled fairly: main() and each session
\* thread take a step they can take.  Nothing is asked of the peers: a peer
\* may stay silent for ever and leave its session in a receive.
FairSpec ==
  /\ Init
  /\ [][FairNext]_vars
  /\ WF_vars(AcceptorStep)
  /\ \A s \in Sessions : SessionScheduled(s)

TypeOK ==
  /\ acceptorPc \in {"accept", "detach"}
  /\ \A s \in Sessions :
       /\ pc[s] \in {"none", "recv_cmd", "wait_start", "stream", "upload_recv", "done"}
       /\ sock[s] \in {"none", "open", "closed"}
       /\ conn[s] \in {"idle", "open", "closed"}
       /\ inFile[s].open = (pc[s] \in {"wait_start", "stream"})
       /\ outFile[s].open = (pc[s] = "upload_recv")

(***************************************************************************)
(* The server with one peer, which sends more messages, drawn from a       *)
(* larger set.                                                             *)
(***************************************************************************)
\* The most messages the single peer sends
MaxSoloSends == 5

SoloMessages ==
  PeerMessages \cup
  { AUTH \o SP \o <<97, 100, 109, 105, 110>> \o SP \o <<97, 100, 109, 105, 110, 112, 97, 115, 115>>,
                                                      \* "AUTH admin adminpass"
    AUTH \o SP \o <<97, 100, 109, 105, 110>> \o SP \o <<112, 97, 115, 115, 49, 50, 51>>,
                                                      \* "AUTH admin pass123"
    AUTH \o SP \o <<117, 115, 101, 114>> \o SP \o <<119, 114, 111, 110, 103>>,
                                                      \* "AUTH user wrong"
    AUTH \o SP \o <<117, 115, 101, 114>>,             \* "AUTH user"
    AUTH,                                             \* "AUTH"
    DOWNLOAD \o SP \o <<98, 46, 116, 120, 116>>,      \* "DOWNLOAD b.txt"
    UPLOAD \o SP \o A_TXT \o SP \o <<48>>,            \* "UPLOAD a.txt 0"
    UPLOAD \o SP \o A_TXT \o SP \o <<45, 49>>,        \* "UPLOAD a.txt -1"
    UPLOAD \o SP \o A_TXT }                           \* "UPLOAD a.txt"

SoloWire == {encryptDecrypt(m) : m \in SoloMessages}

SoloNext ==
  \/ AcceptorStep
  \/ RemoveStorageRoot
  \/ SessionStep(1)
  \/ PeerConnect(1)
  \/ \E w \in SoloWire : PeerSend(1, w, MaxSoloSends)
  \/ PeerClose(1)

SoloSpec == Init /\ [][SoloNext]_vars

(***************************************************************************)
(* The server with one peer and a storage directory that is empty, holds   *)
(* a.txt (of two bytes, of one block, or of two blocks and five bytes), or *)
(* holds a.txt and b.txt.                                                  *)
(***************************************************************************)
B_TXT == <<98, 46, 116, 120, 116>>                                     \* "b.txt"

\* A file of n bytes that differ from block to block.
FileOfSize(n) == [i \in 1..n |-> (i * 37 + (i \div 256)) % 256]

FilesMessages ==
  { AUTH \o SP \o <<117, 115, 101, 114>> \o SP \o <<112, 97, 115, 115, 49, 50, 51>>,
                                                      \* "AUTH user pass123"
    LIST,
    LIST \o SP \o A_TXT,                              \* "LIST a.txt"
    DOWNLOAD \o SP \o A_TXT,                          \* "DOWNLOAD a.txt"
    START,
    UPLOAD \o SP \o B_TXT \o SP \o <<49>>,            \* "UPLOAD b.txt 1"
    START \o SP,                                      \* "START "
    DOWNLOAD,                                         \* "DOWNLOAD"
    <<120>> }                                         \* "x"

FilesWire == {encryptDecrypt(m) : m \in FilesMessages}

FilesInit ==
  /\ InitServer
  /\ serverFiles \in
       { NoFiles,
         [n \in {A_TXT} |-> <<104, 105>>],
         [n \in {A_TXT} |-> FileOfSize(BUFFER_SIZE)],
         [n \in {A_TXT} |-> FileOfSize(2 * BUFFER_SIZE + 5)],
         [n \in {A_TXT, B_TXT} |-> IF n = A_TXT THEN <<104, 105>> ELSE <<98>>] }
  /\ InitClient(NoFiles)
  /\ codec = NoCodec
  /\ validUsers = VALID_USERS

FilesNext ==
  \/ AcceptorStep
  \/ SessionStep(1)
  \/ PeerConnect(1)
  \/ \E w \in FilesWire : PeerSend(1, w, MaxSoloSends)
  \/ PeerClose(1)

FilesSpec == FilesInit /\ [][FilesNext]_vars

(***************************************************************************)
(* The codec on its own: encryptDecrypt of the server is applied to an     *)
(* input, then to the result, and encryptDecrypt of the client is applied  *)
(* to the input.  The inputs are the sequences of at most MaxCodecLen      *)
(* bytes of CodecBytes, and the sequences of one repeated byte of the       *)
(* lengths of CodecLongLens, which pass the end of the key.                *)
(***************************************************************************)
\* The longest input of which every sequence of bytes is tried
MaxCodecLen == 2

CodecBytes == {0, 1, 107, 109, 127, 128, 255}

CodecLongLens ==
  {Len(ENCRYPTION_KEY) - 1, Len(ENCRYPTION_KEY), Len(ENCRYPTION_KEY) + 1,
   2 * Len(ENCRYPTION_KEY) + 3}

CodecInputs ==
  UNION {[1..n -> CodecBytes] : n \in 0..MaxCodecLen}
  \cup {[i \in 1..n |-> b] : n \in CodecLongLens, b \in CodecBytes}

CodecInit ==
  /\ InitServer
  /\ serverFiles = NoFiles
  /\ InitClient(NoFiles)
  /\ \E x \in CodecInputs : codec = [NoCodec EXCEPT !.in = x]
  /\ validUsers = VALID_USERS

\* encryptDecrypt(x), then encryptDecrypt of the result (server.cpp)
CodecApply ==
  /\ codec.applied < 2
  /\ codec' = IF codec.applied = 0
              THEN [codec EXCEPT !.out = encryptDecrypt(codec.in), !.applied = 1]
              ELSE [codec EXCEPT !.back = encryptDecrypt(codec.out), !.applied = 2]
  /\ UNCHANGED <<acceptorPc, accepted, backlog, pc, sock, isAuthenticated, inFile,
                 outFile, fileSize, bytesReceived, logged, rootExists, serverFiles,
                 toServer, toClient, conn, peerSends, clientVars, validUsers>>

\* encryptDecrypt(x) of the client (client.cpp)
CodecApplyClient ==
  /\ codec.applied = 2
  /\ codec' = [codec EXCEPT !.client = encryptDecryptClient(codec.in), !.applied = 3]
  /\ UNCHANGED <<acceptorPc, accepted, backlog, pc, sock, isAuthenticated, inFile,
                 outFile, fileSize, bytesReceived, logged, rootExists, serverFiles,
                 toServer, toClient, conn, peerSends, clientVars, validUsers>>

CodecNext == CodecApply \/ CodecApplyClient

CodecSpec == CodecInit /\ [][CodecNext]_vars

(***************************************************************************)
(* The server with the reference client on one connection and a peer that  *)
(* is not the reference client on the other.  The client's directory holds *)
(* a.txt, of three bytes.                                                  *)
(***************************************************************************)
\* The messages of the peer on the other connection.
OtherWire ==
  {encryptDecrypt(m) : m \in
     { AUTH \o SP \o <<117, 115, 101, 114>> \o SP \o <<112, 97, 115, 115, 49, 50, 51>>,
                                                      \* "AUTH user pass123"
       UPLOAD \o SP \o A_TXT \o SP \o <<50>>,         \* "UPLOAD a.txt 2"
       DOWNLOAD \o SP \o A_TXT,                       \* "DOWNLOAD a.txt"
       START,
       QUIT,
       <<120>>,                                       \* "x"
       <<120, 121, 122>> }}                           \* "xyz"

ClientNext ==
  \/ AcceptorStep
  \/ \E s \in Sessions : SessionStep(s)
  \/ ClientStep(BOOLEAN)
  \/ PeerConnect(2)
  \/ \E w \in OtherWire : PeerSend(2, w, MaxPeerSends)
  \/ PeerClose(2)

ClientInit ==
  /\ InitServer
  /\ serverFiles \in {NoFiles, [n \in {A_TXT} |-> <<104, 105>>]}
  /\ InitClient([n \in {A_TXT} |-> <<97, 98, 99>>])
  /\ codec = NoCodec
  /\ validUsers = VALID_USERS

ClientSpec == ClientInit /\ [][ClientNext]_vars

(***************************************************************************)
(* The server with the reference client alone: no other session touches    *)
(* the files, no connection is lost, and the client can open its           *)
(* destination files.  The client's directory holds a.txt, of one of the   *)
(* sizes of RoundTripSizes.                                                *)
(***************************************************************************)
\* Nothing, one byte, the block of the client's upload less one and whole,
\* the block of the server's download less one and whole, and two blocks of
\* the download (four of the upload) with five bytes more.
RoundTripSizes ==
  {0, 1, (BUFFER_SIZE \div 2) - 1, BUFFER_SIZE \div 2, BUFFER_SIZE - 1, BUFFER_SIZE,
   2 * BUFFER_SIZE + 5}

RoundTripNext ==
  \/ AcceptorStep
  \/ SessionStep(ClientSession)
  \/ ClientStep({TRUE})

RoundTripInit ==
  /\ InitServer
  /\ serverFiles \in {NoFiles, [n \in {A_TXT} |-> <<104, 105>>]}
  /\ \E n \in RoundTripSizes : InitClient([f \in {A_TXT} |-> FileOfSize(n)])
  /\ codec = NoCodec
  /\ validUsers = VALID_USERS

RoundTripSpec == RoundTripInit /\ [][RoundTripNext]_vars

(***************************************************************************)
(* The server with the reference client alone, whose user also asks for a  *)
(* file that is missing and for a file whose name makes the DOWNLOAD       *)
(* command longer than BUFFER_SIZE; the destination file of a download may *)
(* fail to open, and the storage root may be removed.  No send fails.      *)
(***************************************************************************)
\* A name of BUFFER_SIZE - 6 letters n: "DOWNLOAD " and the name are three
\* bytes more than one recv() of the server takes.
LongName == [i \in 1..(BUFFER_SIZE - 6) |-> 110]

ShortLines ==
  { LIST_LINE,
    DOWNLOAD_LINE \o SP \o A_TXT,                      \* "download a.txt"
    DOWNLOAD_LINE \o SP \o B_TXT,                      \* "download b.txt"
    UPLOAD_LINE \o SP \o A_TXT }                       \* "upload a.txt"

SyncLines == ShortLines \cup {DOWNLOAD_LINE \o SP \o LongName}

SyncNext ==
  \/ AcceptorStep
  \/ RemoveStorageRoot
  \/ SessionStep(ClientSession)
  \/ ClientConnect
  \/ \E cred \in Credentials : ClientAuth(cred)
  \/ ClientAuthResponse
  \/ \E line \in SyncLines : ClientCommand(line)
  \/ ListResponse
  \/ \E o \in BOOLEAN : DownloadOk(o)
  \/ DownloadReceive
  \/ DownloadDone
  \/ UploadOk
  \/ UploadSendChunk(TRUE)
  \/ UploadFinal

SyncInit ==
  /\ InitServer
  /\ serverFiles \in {NoFiles, [n \in {A_TXT} |-> <<104, 105>>]}
  /\ InitClient([n \in {A_TXT} |-> <<97, 98, 99>>])
  /\ codec = NoCodec
  /\ validUsers = VALID_USERS

SyncSpec == SyncInit /\ [][SyncNext]_vars

(***************************************************************************)
(* Properties.                                                             *)
(***************************************************************************)
Last(q) == q[Len(q)]

\* The message at the head of the queue to the server, decoded.
Pending(s) == encryptDecrypt(Head(toServer[s]))

\* The step is the server taking the message at the head of the queue of s.
Takes(s) == toServer[s] # <<>> /\ toServer'[s] = Tail(toServer[s])

\* The step adds exactly the reply r to the queue to the client of s.
Replies(s, r) == toClient'[s] = Append(toClient[s], encryptDecrypt(r))

\* The step does nothing to the files on behalf of s.
NoFileOperation(s) ==
  /\ serverFiles' = serverFiles
  /\ ~inFile'[s].open
  /\ ~outFile'[s].open

\* C1: an unauthenticated session answers every command whose first word is
\* not AUTH with exactly one "ERROR Authentication required.", does no file
\* operation, stays unauthenticated and stays open.
C1_Step(s) ==
  (/\ pc[s] = "recv_cmd"
   /\ ~isAuthenticated[s]
   /\ Takes(s)
   /\ ExtractWord(Pending(s), 1).word # AUTH)
  => /\ Replies(s, ERR_AUTH_REQUIRED)
     /\ NoFileOperation(s)
     /\ ~isAuthenticated'[s]
     /\ pc'[s] = "recv_cmd"
     /\ sock'[s] = "open"

\* C1: every step of an unauthenticated session that takes a command other
\* than AUTH answers "ERROR Authentication required." and does nothing else.
C1_AuthenticationRequired == [][\A s \in Sessions : C1_Step(s)]_vars

\* An unauthenticated session has been told that authentication is required
\* and still awaits a command.
C1_Witness ==
  \E s \in Sessions :
    /\ pc[s] = "recv_cmd"
    /\ ~isAuthenticated[s]
    /\ sock[s] = "open"
    /\ toClient[s] # <<>>
    /\ Last(toClient[s]) = encryptDecrypt(ERR_AUTH_REQUIRED)

\* The credential table of the specification.
CredentialTable ==
  { << <<117, 115, 101, 114>>, <<112, 97, 115, 115, 49, 50, 51>> >>,          \* user, pass123
    << <<97, 100, 109, 105, 110>>, <<97, 100, 109, 105, 110, 112, 97, 115, 115>> >> }
                                                                              \* admin, adminpass

\* C2: an unauthenticated session answers AUTH <user> <pass> with
\* AUTH_SUCCESS and becomes authenticated if and only if (user, pass) is an
\* entry of the credential table; otherwise it answers AUTH_FAIL and stays
\* unauthenticated, open and awaiting the next command.
C2_Step(s) ==
  (/\ pc[s] = "recv_cmd"
   /\ ~isAuthenticated[s]
   /\ Takes(s)
   /\ ExtractWord(Pending(s), 1).word = AUTH)
  => LET command == ExtractWord(Pending(s), 1)
         user    == ExtractWord(Pending(s), command.next)
         pass    == ExtractWord(Pending(s), user.next)
     IN  /\ pc'[s] = "recv_cmd"
         /\ sock'[s] = "open"
         /\ IF <<user.word, pass.word>> \in CredentialTable
            THEN Replies(s, AUTH_SUCCESS) /\ isAuthenticated'[s]
            ELSE Replies(s, AUTH_FAIL) /\ ~isAuthenticated'[s]

\* C2: every AUTH taken by an unauthenticated session succeeds if and only
\* if the pair is an entry of the credential table.
C2_Authenticate == [][\A s \in Sessions : C2_Step(s)]_vars

\* A session was authenticated by a message that was not its first: an
\* attempt before it was rejected.
C2_Witness ==
  \E s \in Sessions :
    /\ isAuthenticated[s]
    /\ peerSends >= 2
    /\ toClient[s] # <<>>
    /\ Last(toClient[s]) = encryptDecrypt(AUTH_SUCCESS)

\* C4: when the receive loop of an upload ends, the verdict is
\* UPLOAD_SUCCESS if and only if the byte counter equals the declared size;
\* after a disconnect or an overshoot it is "ERROR Upload incomplete.".  The
\* counter is the sum of the lengths of the messages received.
C4_Step(s) ==
  /\ (pc[s] = "upload_recv" /\ Takes(s))
       => bytesReceived'[s] = bytesReceived[s] + Len(Head(toServer[s]))
  /\ (pc[s] = "upload_recv" /\ pc'[s] # "upload_recv")
       => /\ Len(toClient'[s]) = Len(toClient[s]) + 1
          /\ Last(toClient'[s]) \in {encryptDecrypt(UPLOAD_SUCCESS),
                                     encryptDecrypt(ERR_INCOMPLETE)}
          /\ (Last(toClient'[s]) = encryptDecrypt(UPLOAD_SUCCESS))
               <=> (bytesReceived'[s] = fileSize[s])
          /\ (toServer[s] = <<>> \/ bytesReceived'[s] > fileSize[s])
               => Last(toClient'[s]) = encryptDecrypt(ERR_INCOMPLETE)
  /\ (pc[s] = "recv_cmd" /\ Len(toClient'[s]) = Len(toClient[s]) + 2
      /\ toClient'[s][Len(toClient[s]) + 1] = encryptDecrypt(OK_UPLOAD))
       => /\ Last(toClient'[s]) \in {encryptDecrypt(UPLOAD_SUCCESS),
                                     encryptDecrypt(ERR_INCOMPLETE)}
          /\ (Last(toClient'[s]) = encryptDecrypt(UPLOAD_SUCCESS))
               <=> (fileSize'[s] = 0)

\* C4: every upload ends with UPLOAD_SUCCESS if and only if the bytes
\* counted equal the declared size.
C4_UploadVerdict == [][\A s \in Sessions : C4_Step(s)]_vars

\* An upload has overshot its declared size and was reported incomplete.
C4_Witness ==
  \E s \in Sessions :
    /\ pc[s] = "recv_cmd"
    /\ fileSize[s] > 0
    /\ bytesReceived[s] > fileSize[s]
    /\ toClient[s] # <<>>
    /\ Last(toClient[s]) = encryptDecrypt(ERR_INCOMPLETE)

\* C7: an authenticated session answers a command that is none of LIST,
\* DOWNLOAD, UPLOAD and QUIT with exactly one "ERROR Unknown command." and is
\* left as it was: open, authenticated and awaiting a command.
C7_Step(s) ==
  (/\ pc[s] = "recv_cmd"
   /\ isAuthenticated[s]
   /\ Takes(s)
   /\ ExtractWord(Pending(s), 1).word \notin {LIST, DOWNLOAD, UPLOAD, QUIT})
  => /\ Replies(s, ERR_UNKNOWN)
     /\ NoFileOperation(s)
     /\ isAuthenticated'[s]
     /\ pc'[s] = "recv_cmd"
     /\ sock'[s] = "open"

\* C7: every unknown command taken by an authenticated session is answered
\* with "ERROR Unknown command." and leaves the session as it was.
C7_UnknownCommand == [][\A s \in Sessions : C7_Step(s)]_vars

\* An authenticated session has been told of an unknown command and still
\* awaits a command.
C7_Witness ==
  \E s \in Sessions :
    /\ pc[s] = "recv_cmd"
    /\ isAuthenticated[s]
    /\ sock[s] = "open"
    /\ toClient[s] # <<>>
    /\ Last(toClient[s]) = encryptDecrypt(ERR_UNKNOWN)

\* The step is the server taking a QUIT command of s.
TakesQuit(s) ==
  /\ pc[s] = "recv_cmd"
  /\ Takes(s)
  /\ ExtractWord(Pending(s), 1).word = QUIT

\* The session of s is over: nothing is sent to it and nothing is read from
\* it any more.
StaysClosed(s) ==
  pc[s] = "done"
  => /\ pc'[s] = "done"
     /\ sock'[s] = "closed"
     /\ Len(toClient'[s]) <= Len(toClient[s])
     /\ ~Takes(s)

\* C8 as stated: every QUIT the server receives is obeyed without a reply.
C8_Original ==
  [][\A s \in Sessions :
       TakesQuit(s)
       => /\ toClient'[s] = toClient[s]
          /\ pc'[s] = "done"
          /\ sock'[s] = "closed"]_vars

\* C8, amended: an authenticated session that receives QUIT sends no reply,
\* leaves the loop and closes the connection; a closed session reads no
\* further command.
C8_Quit ==
  [][\A s \in Sessions :
       /\ (TakesQuit(s) /\ isAuthenticated[s])
            => /\ toClient'[s] = toClient[s]
               /\ pc'[s] = "done"
               /\ sock'[s] = "closed"
               /\ logged'[s] = "Client sent QUIT"
       /\ StaysClosed(s)]_vars

\* A session has been closed by QUIT.
C8_Witness ==
  \E s \in Sessions :
    /\ pc[s] = "done"
    /\ sock[s] = "closed"
    /\ isAuthenticated[s]
    /\ logged[s] = "Client sent QUIT"

\* C10: whenever a session ends (QUIT, an empty receive, a fault), its socket
\* is closed and it holds no open file; the step changes nothing of the
\* other sessions nor of the acceptor.
C10_Step(s) ==
  (pc[s] # "done" /\ pc'[s] = "done")
  => /\ sock'[s] = "closed"
     /\ ~inFile'[s].open
     /\ ~outFile'[s].open
     /\ logged'[s] \in {"Client sent QUIT", "Client disconnected abruptly",
                        "Error handling client"}
     /\ <<acceptorPc, accepted, backlog>>' = <<acceptorPc, accepted, backlog>>
     /\ \A t \in Sessions \ {s} :
          /\ pc'[t] = pc[t]
          /\ sock'[t] = sock[t]
          /\ isAuthenticated'[t] = isAuthenticated[t]
          /\ inFile'[t] = inFile[t]
          /\ outFile'[t] = outFile[t]
          /\ toClient'[t] = toClient[t]
          /\ toServer'[t] = toServer[t]

\* C10: every step that ends a session closes its socket and its files and
\* touches no other session and not the acceptor.
C10_ResourcesReleased == [][\A s \in Sessions : C10_Step(s)]_vars

\* A fault (LIST with the storage directory missing) has ended one session
\* while another session is open and awaits a command.
C10_Witness ==
  \E s, t \in Sessions :
    /\ s # t
    /\ logged[s] = "Error handling client"
    /\ pc[s] = "done"
    /\ sock[s] = "closed"
    /\ pc[t] = "recv_cmd"
    /\ sock[t] = "open"
    /\ acceptorPc = "accept"

\* C9: whatever the other sessions do, and if they stay in a receive for
\* ever, a connection that has been made is accepted, and a message that
\* has reached an accepted session is received by it.
C9_Independent ==
  \A s \in Sessions :
    /\ (s \in backlog) ~> (pc[s] # "none")
    /\ (toServer[s] # <<>>) ~> (toServer[s] = <<>>)

\* One session is in the receive loop of an upload, with nothing to
\* receive, while the other has been accepted after it and has been served
\* a command.
C9_Witness ==
  \E s, t \in Sessions :
    /\ s # t
    /\ pc[s] = "upload_recv"
    /\ toServer[s] = <<>>
    /\ conn[s] = "open"
    /\ pc[t] = "recv_cmd"
    /\ toClient[t] # <<>>
    /\ acceptorPc = "accept"

\* The step is the client taking the message at the head of its queue.
ClientTakes ==
  /\ toClient[ClientSession] # <<>>
  /\ toClient'[ClientSession] = RecvRest(toClient[ClientSession])

\* The client awaits a message of the server in an upload, or in a download
\* of the file it has uploaded.
AwaitsTransfer ==
  \/ cpc \in {"ul_wait_ok", "ul_wait_final"}
  \/ /\ cpc \in {"dl_wait_ok", "dl_recv", "dl_wait_done"}
     /\ uploaded.made
     /\ cName = uploaded.name

\* The server has sent the message the client awaits, or is streaming, or
\* has a message of the client to receive.
C3_Owed ==
  (AwaitsTransfer /\ toClient[ClientSession] = <<>>)
  => \/ pc[ClientSession] = "stream"
     \/ /\ pc[ClientSession] \in {"recv_cmd", "wait_start", "upload_recv"}
        /\ toServer[ClientSession] # <<>>

C3_Step ==
  /\ (cpc = "ul_wait_ok" /\ cpc' # cpc) => cpc' = "ul_send"
  /\ (cpc = "ul_send" /\ cpc' # cpc) => cpc' = "ul_wait_final"
  /\ (cpc = "ul_wait_final" /\ cpc' # cpc)
       => /\ cResponse' = UPLOAD_SUCCESS
          /\ serverFiles'[uploaded.name] = uploaded.content
  /\ (uploaded.made /\ cName = uploaded.name)
       => /\ (cpc = "dl_wait_ok" /\ cpc' # cpc)
               => /\ cpc' \in {"dl_recv", "dl_wait_done"}
                  /\ cSize' = Len(uploaded.content)
          /\ (cpc = "dl_recv" /\ cpc' # cpc) => cpc' = "dl_wait_done"
          /\ (cpc # "dl_wait_done" /\ cpc' = "dl_wait_done")
               => clientFiles'[cName] = uploaded.content
          /\ (cpc = "dl_wait_done" /\ cpc' # cpc)
               => /\ cResponse' = DOWNLOAD_DONE
                  /\ cDone' = "complete"
                  /\ clientFiles'[cName] = uploaded.content

\* C3: with the reference client alone, an upload is accepted and answered
\* with UPLOAD_SUCCESS, and the server's file is the uploaded content; a
\* download of the uploaded filename that follows receives all the declared
\* bytes, then DOWNLOAD_DONE, and leaves a file equal byte for byte to the
\* uploaded content; and the client never awaits a message that the server
\* is not going to send.  The sizes are those of RoundTripSizes.
C3_RoundTrip == [][C3_Step]_vars /\ []C3_Owed

\* A file of two download blocks and five bytes has been uploaded and
\* then downloaded, and the download has ended with DOWNLOAD_DONE.
C3_Witness ==
  /\ cpc = "prompt"
  /\ uploaded.made
  /\ Len(uploaded.content) = 2 * BUFFER_SIZE + 5
  /\ cDone = "complete"
  /\ cResponse = DOWNLOAD_DONE
  /\ clientFiles[uploaded.name] = uploaded.content

\* C5: when a content message would carry the client's total past the size
\* declared in OK_DOWNLOAD, the client writes the first (declared size -
\* total) bytes of the message and no more; after the message the total and
\* the length of the destination file are the declared size.
C5_Step ==
  (/\ cpc = "dl_recv"
   /\ ClientTakes
   /\ cReceived + Len(receiveResponse) > cSize)
  => /\ clientFiles'[cName] =
          clientFiles[cName] \o SubSeq(receiveResponse, 1, cSize - cReceived)
     /\ cReceived' = cSize
     /\ Len(clientFiles'[cName]) = cSize
     /\ cpc' = "dl_wait_done"

\* C5: every content message that would pass the declared size is cut to
\* the bytes that remain.
C5_DownloadTruncation == [][C5_Step]_vars

\* The file grew from two bytes to three between OK_DOWNLOAD and the
\* streaming; the client has kept the first two bytes of "xyz".
C5_Witness ==
  /\ cpc = "dl_wait_done"
  /\ cSize = 2
  /\ cReceived = 2
  /\ A_TXT \in DOMAIN clientFiles
  /\ clientFiles[A_TXT] = <<120, 121>>
  /\ A_TXT \in DOMAIN serverFiles
  /\ Len(serverFiles[A_TXT]) = 3

\* C6 as stated: on the client in a download and on the server in an
\* upload, the bytes counted never exceed the declared size.
C6_Original ==
  /\ cpc \in {"dl_recv", "dl_wait_done"} => cReceived <= cSize
  /\ \A s \in Sessions : bytesReceived[s] <= fileSize[s]

\* C6: the client's count in a download never exceeds the size declared in
\* OK_DOWNLOAD, and is below it while the client receives content; the
\* server's count in an upload is below the declared size whenever the
\* server is to receive content (the last message received may carry it past
\* the declared size: the server truncates nothing).
C6_ReceiverCount ==
  /\ cpc \in {"dl_recv", "dl_wait_done"} => cReceived <= cSize
  /\ cpc = "dl_recv" => cReceived < cSize
  /\ \A s \in Sessions : pc[s] = "upload_recv" => bytesReceived[s] < fileSize[s]

\* The client has received all of a download, and no more, while the upload
\* of another session has counted more bytes than it declared.
C6_Witness ==
  /\ cpc = "dl_wait_done"
  /\ cSize > 0
  /\ cReceived = cSize
  /\ \E s \in Sessions : bytesReceived[s] > fileSize[s]

\* The segments of str between its newlines: k newlines give k + 1
\* segments, and the last is empty when str ends with a newline.
RECURSIVE SplitLines(_)
SplitLines(str) ==
  IF \A i \in 1..Len(str) : str[i] # 10 THEN <<str>>
  ELSE LET k == CHOOSE i \in 1..Len(str) :
                  str[i] = 10 /\ \A j \in 1..(i - 1) : str[j] # 10
       IN  <<SubSeq(str, 1, k - 1)>> \o SplitLines(SubSeq(str, k + 1, Len(str)))

\* The step is an authenticated session of s taking a LIST command while
\* the storage directory exists.
TakesList(s) ==
  /\ pc[s] = "recv_cmd"
  /\ isAuthenticated[s]
  /\ Takes(s)
  /\ ExtractWord(Pending(s), 1).word = LIST
  /\ rootExists

\* The reply the step adds to the queue to the client of s, decoded.
Reply(s) == encryptDecrypt(Last(toClient'[s]))

Bit(a, k) == (a \div (2 ^ k)) % 2

\* c is a XOR b, bit by bit.
IsXor(c, a, b) ==
  /\ c \in 0..255
  /\ \A k \in 0..7 : Bit(c, k) = (Bit(a, k) + Bit(b, k)) % 2

\* C12: encryptDecrypt keeps the length, byte i of its result (from 0) is
\* byte i of the input XOR byte (i mod key length) of the key, applying it
\* twice gives the input back, and the client's encryptDecrypt gives the
\* same result as the server's.
C12_Codec ==
  /\ codec.applied >= 1
       => /\ Len(codec.out) = Len(codec.in)
          /\ \A i \in 1..Len(codec.in) :
               IsXor(codec.out[i], codec.in[i],
                     ENCRYPTION_KEY[((i - 1) % Len(ENCRYPTION_KEY)) + 1])
  /\ codec.applied >= 2 => codec.back = codec.in
  /\ codec.applied >= 3 => codec.client = codec.out

\* The codec has been applied, by the server twice and by the client, to an
\* input that is longer than two keys and holds the byte 255.
C12_Witness ==
  /\ codec.applied = 3
  /\ Len(codec.in) > 2 * Len(ENCRYPTION_KEY)
  /\ codec.in[1] = 255
  /\ codec.out # codec.in
  /\ codec.back = codec.in

\* The step is an authenticated session of s taking a DOWNLOAD command that
\* names a file of the storage directory.
TakesDownload(s) ==
  /\ pc[s] = "recv_cmd"
  /\ isAuthenticated[s]
  /\ Takes(s)
  /\ ExtractWord(Pending(s), 1).word = DOWNLOAD
  /\ rootExists
  /\ ExtractWord(Pending(s), ExtractWord(Pending(s), 1).next).word \in DOMAIN serverFiles

\* The step is the server sending one message to the client of s.
Sends(s) == Len(toClient'[s]) = Len(toClient[s]) + 1

C13_Step(s) ==
  /\ TakesDownload(s)
       => LET name == ExtractWord(Pending(s), ExtractWord(Pending(s), 1).next).word
          IN  /\ Replies(s, OK_DOWNLOAD \o SP \o to_string(Len(serverFiles[name])))
              /\ pc'[s] = "wait_start"
              /\ inFile'[s] = [open |-> TRUE, name |-> name, pos |-> 0, eof |-> FALSE]
  /\ pc[s] = "wait_start"
       => /\ ~Sends(s)
          /\ pc'[s] = "stream" => (Takes(s) /\ Pending(s) = START)
  /\ pc[s] # "wait_start" => pc'[s] # "stream" \/ pc[s] = "stream"
  /\ (pc[s] = "stream" /\ Sends(s) /\ inFile[s].name \in DOMAIN serverFiles)
       => LET file == serverFiles[inFile[s].name]
              pos  == inFile[s].pos
              m    == Reply(s)
          IN  IF pos < Len(file)
              THEN /\ Len(m) \in 1..BUFFER_SIZE
                   /\ Len(m) = BUFFER_SIZE \/ pos + Len(m) = Len(file)
                   /\ m = SubSeq(file, pos + 1, pos + Len(m))
                   /\ inFile'[s].pos = pos + Len(m)
                   /\ pc'[s] = "stream"
              ELSE /\ m = DOWNLOAD_DONE
                   /\ pc'[s] = "recv_cmd"
                   /\ ~inFile'[s].open
  /\ (pc[s] = "stream" /\ pc'[s] # "stream") => Sends(s)

\* C13: a DOWNLOAD of an existing file is answered with OK_DOWNLOAD and the
\* length of the file; nothing is sent until START has been received; then
\* every message sent is the next block of the file, of BUFFER_SIZE bytes or
\* of what is left, from the first byte on, until the whole file has been
\* sent; DOWNLOAD_DONE is sent once, when no byte is left, and ends the
\* streaming.
C13_DownloadOrder == [][\A s \in Sessions : C13_Step(s)]_vars

\* A file of two blocks and five bytes has been streamed: the queue to the
\* client holds the file in three messages and then DOWNLOAD_DONE.
C13_Witness ==
  \E s \in Sessions :
    /\ pc[s] = "recv_cmd"
    /\ A_TXT \in DOMAIN serverFiles
    /\ Len(serverFiles[A_TXT]) = 2 * BUFFER_SIZE + 5
    /\ Len(toClient[s]) = 4
    /\ encryptDecrypt(toClient[s][1]) \o encryptDecrypt(toClient[s][2])
         \o encryptDecrypt(toClient[s][3]) = serverFiles[A_TXT]
    /\ Len(toClient[s][3]) = 5
    /\ encryptDecrypt(toClient[s][4]) = DOWNLOAD_DONE

C14_Step(s) ==
  (/\ pc[s] = "wait_start"
   /\ Takes(s))
  => IF Pending(s) = START
     THEN pc'[s] = "stream"
     ELSE /\ toClient'[s] = toClient[s]
          /\ pc'[s] = "recv_cmd"
          /\ sock'[s] = "open"
          /\ isAuthenticated'[s]
          /\ ~inFile'[s].open
          /\ serverFiles' = serverFiles

\* C14: a session that has sent OK_DOWNLOAD and receives a message other
\* than exactly START sends nothing for it (no content, no DOWNLOAD_DONE, no
\* error), closes the file, stays open and authenticated, and awaits a
\* command: the message that follows is served as a command.
C14_NotStarted == [][\A s \in Sessions : C14_Step(s)]_vars

\* After AUTH, DOWNLOAD and a message that is not START, the session has
\* answered LIST: four messages were sent, and the only reply in the queue
\* is the listing.
C14_Witness ==
  \E s \in Sessions :
    /\ pc[s] = "recv_cmd"
    /\ sock[s] = "open"
    /\ ~inFile[s].open
    /\ logged[s] = "Client did not start transfer"
    /\ peerSends = 4
    /\ toServer[s] = <<>>
    /\ Len(toClient[s]) = 1
    /\ DOMAIN serverFiles = {A_TXT}
    /\ Len(serverFiles[A_TXT]) = BUFFER_SIZE
    /\ encryptDecrypt(toClient[s][1]) = LIST_HEADER \o A_TXT \o NL

\* ---- C15 -------------------------------------------------------------

TakesMissingDownload(s) ==
  /\ pc[s] = "recv_cmd"
  /\ isAuthenticated[s]
  /\ Takes(s)
  /\ ExtractWord(Pending(s), 1).word = DOWNLOAD
  /\ LET name == ExtractWord(Pending(s), ExtractWord(Pending(s), 1).next).word
     IN  name # <<>> /\ ~(rootExists /\ name \in DOMAIN serverFiles)

C15_Step(s) ==
  TakesMissingDownload(s)
  => /\ Replies(s, ERR_NOT_FOUND)
     /\ pc'[s] = "recv_cmd"
     /\ sock'[s] = "open"
     /\ isAuthenticated'[s]
     /\ ~inFile'[s].open
     /\ serverFiles' = serverFiles

\* C15: an authenticated DOWNLOAD that names a file absent from the storage
\* root is answered with the single message "ERROR File not found."; there
\* is no OK_DOWNLOAD, no wait for START, no content and no DOWNLOAD_DONE; no
\* file is open afterwards, and the session awaits the next command, open
\* and authenticated.
C15_FileNotFound == [][\A s \in Sessions : C15_Step(s)]_vars

\* AUTH and then a DOWNLOAD of a missing file have been served: the error is
\* the only reply to the second message, and the session awaits a command.
C15_Witness ==
  \E s \in Sessions :
    /\ pc[s] = "recv_cmd"
    /\ sock[s] = "open"
    /\ isAuthenticated[s]
    /\ ~inFile[s].open
    /\ peerSends = 2
    /\ toServer[s] = <<>>
    /\ toClient[s] = <<encryptDecrypt(ERR_NOT_FOUND)>>

\* ---- C16 -------------------------------------------------------------

TakesUpload(s) ==
  /\ pc[s] = "recv_cmd"
  /\ isAuthenticated[s]
  /\ Takes(s)
  /\ ExtractWord(Pending(s), 1).word = UPLOAD
  /\ rootExists
  /\ ExtractWord(Pending(s), ExtractWord(Pending(s), 1).next).word # <<>>

TakesContent(s) == pc[s] = "upload_recv" /\ Takes(s)

C16_Step ==
  /\ \A s \in Sessions :
       /\ TakesUpload(s)
            => LET name == ExtractWord(Pending(s), ExtractWord(Pending(s), 1).next).word
               IN  /\ serverFiles' = [n \in DOMAIN serverFiles \cup {name} |->
                                        IF n = name THEN <<>> ELSE serverFiles[n]]
                   /\ Len(toClient'[s]) > Len(toClient[s])
                   /\ encryptDecrypt(toClient'[s][Len(toClient[s]) + 1]) = OK_UPLOAD
                   /\ pc'[s] = "upload_recv" => outFile'[s].name = name
       /\ TakesContent(s)
            => /\ serverFiles' = [serverFiles EXCEPT ![outFile[s].name] = @ \o Pending(s)]
               /\ bytesReceived'[s] = bytesReceived[s] + Len(Pending(s))
  /\ (\A s \in Sessions : ~TakesUpload(s) /\ ~TakesContent(s))
       => serverFiles' = serverFiles

C16_Holds ==
  \A s \in Sessions :
    pc[s] = "upload_recv"
    => /\ outFile[s].open
       /\ outFile[s].name \in DOMAIN serverFiles
       /\ Len(serverFiles[outFile[s].name]) = bytesReceived[s]

\* C16: an UPLOAD that the server accepts leaves the destination file empty,
\* whatever it held, before OK_UPLOAD is sent; every message received in the
\* receive loop is appended whole to the file, and nothing else changes the
\* file: when the loop exits, by completion, overshoot or disconnect, the
\* file is the concatenation of the messages received, and its length is the
\* count of bytes received.
C16_UploadAppends == [][C16_Step]_vars /\ []C16_Holds

\* "UPLOAD a.txt 2" onto a.txt = "hi" followed by the three bytes "xyz": the
\* upload is reported incomplete and a.txt is "xyz".
C16_Witness ==
  \E s \in Sessions :
    /\ pc[s] = "recv_cmd"
    /\ fileSize[s] = 2
    /\ bytesReceived[s] = 3
    /\ toClient[s] = <<encryptDecrypt(ERR_INCOMPLETE)>>
    /\ A_TXT \in DOMAIN serverFiles
    /\ serverFiles[A_TXT] = <<120, 121, 122>>

\* ---- C17 -------------------------------------------------------------

C17_Step(s) ==
  /\ (pc[s] = "upload_recv" /\ Takes(s))
       => /\ pc'[s] \in {"upload_recv", "recv_cmd"}
          /\ sock'[s] = "open"
          /\ isAuthenticated'[s] = isAuthenticated[s]
          /\ inFile'[s] = inFile[s]
          /\ serverFiles' = [serverFiles EXCEPT ![outFile[s].name] = @ \o Pending(s)]
          /\ \/ toClient'[s] = toClient[s]
             \/ Replies(s, UPLOAD_SUCCESS)
             \/ Replies(s, ERR_INCOMPLETE)
  /\ (pc[s] = "wait_start" /\ Takes(s))
       => /\ pc'[s] \in {"stream", "recv_cmd"}
          /\ sock'[s] = "open"
          /\ isAuthenticated'[s] = isAuthenticated[s]
          /\ outFile'[s] = outFile[s]
          /\ serverFiles' = serverFiles
          /\ toClient'[s] = toClient[s]
  /\ pc[s] = "stream" => ~Takes(s)

C17_OneTransfer ==
  \A s \in Sessions :
    /\ ~(inFile[s].open /\ outFile[s].open)
    /\ inFile[s].open <=> pc[s] \in {"wait_start", "stream"}
    /\ outFile[s].open <=> pc[s] = "upload_recv"

\* C17: a session has at most one file open, the download's exactly while
\* it waits for START or streams and the upload's exactly while it receives;
\* a message received in the upload's loop is appended to the file and
\* answered at most by the upload's verdict, a message received in the wait
\* for START is answered by nothing, and neither closes the socket, changes
\* the authentication or opens another file, whatever its text; while a
\* download streams, no message is read.
C17_TransferConsumes == [][\A s \in Sessions : C17_Step(s)]_vars /\ []C17_OneTransfer

\* AUTH, DOWNLOAD a.txt, QUIT, UPLOAD a.txt 2, QUIT: the first QUIT was
\* taken by the wait for START and the second by the upload, so the socket
\* is open and a.txt holds the text QUIT.
C17_Witness ==
  \E s \in Sessions :
    /\ pc[s] = "recv_cmd"
    /\ sock[s] = "open"
    /\ isAuthenticated[s]
    /\ peerSends = 5
    /\ logged[s] = "Client did not start transfer"
    /\ toClient[s] = <<encryptDecrypt(ERR_INCOMPLETE)>>
    /\ A_TXT \in DOMAIN serverFiles
    /\ serverFiles[A_TXT] = QUIT

\* ---- C18 -------------------------------------------------------------

\* The client is in a receive that does not return.
ClientBlocked ==
  /\ cpc \in {"auth_wait", "list_wait", "dl_wait_ok", "dl_recv", "dl_wait_done",
               "ul_wait_ok", "ul_wait_final"}
  /\ ~ClientCanReceive

\* The session of the client is in a receive that does not return.
ServerBlocked ==
  /\ pc[ClientSession] \in {"recv_cmd", "wait_start", "upload_recv"}
  /\ ~CanReceive(ClientSession)

\* Every recv() takes one whole message: no message on a connection is
\* longer than the BUFFER_SIZE bytes that one recv() takes.
OneMessagePerRead ==
  \A s \in Sessions :
    /\ \A i \in 1..Len(toServer[s]) : Len(toServer[s][i]) <= BUFFER_SIZE
    /\ \A i \in 1..Len(toClient[s]) : Len(toClient[s][i]) <= BUFFER_SIZE

C18_InStep ==
  (sock[ClientSession] = "open" /\ conn[ClientSession] = "open")
  => /\ ~(ClientBlocked /\ ServerBlocked)
     /\ cpc = "prompt" => toClient[ClientSession] = <<>>
     /\ (cpc = "prompt" /\ ServerBlocked)
          => /\ pc[ClientSession] = "recv_cmd"
             /\ toServer[ClientSession] = <<>>

\* C18: as long as every recv() takes one whole message, and while the
\* connection of the reference client is open at both ends: the client and
\* its session are never both in a receive that does not return; when the
\* client is at its prompt nothing is on its way to it (DOWNLOAD_DONE, the
\* listing, the verdict of an upload and every error have been consumed);
\* and once the session has come to rest it awaits a command with nothing
\* on its way to the server, after list, after download (complete, absent
\* file, destination that does not open) and after upload (complete,
\* refused).
C18_Synchronised == []OneMessagePerRead => []C18_InStep

\* The client is back at its prompt after a complete download of a.txt and
\* a download whose destination did not open: the CANCEL has been taken by
\* the session, which awaits a command, and nothing is in flight.
C18_Witness ==
  /\ cpc = "prompt"
  /\ cInputs = 3
  /\ cDone = "none"
  /\ sock[ClientSession] = "open"
  /\ conn[ClientSession] = "open"
  /\ pc[ClientSession] = "recv_cmd"
  /\ logged[ClientSession] = "Client did not start transfer"
  /\ toServer[ClientSession] = <<>>
  /\ toClient[ClientSession] = <<>>
  /\ A_TXT \in DOMAIN clientFiles
  /\ clientFiles[A_TXT] = <<104, 105>>

\* ---- C19 -------------------------------------------------------------

\* The client has not left its authentication loop.
AuthPhase(at) == at \in {"off", "auth_prompt", "auth_wait"}

\* The step is the client sending a message.
ClientSends == Len(toServer'[ClientSession]) > Len(toServer[ClientSession])

\* What a receive of the client returns in this state.
ClientResponse ==
  IF toClient[ClientSession] = <<>> THEN <<>>
  ELSE encryptDecrypt(RecvBytes(toClient[ClientSession]))

C19_Step ==
  /\ (AuthPhase(cpc) /\ ClientSends)
       => /\ cpc = "auth_prompt"
          /\ cpc' = "auth_wait"
          /\ cInputs' = cInputs + 1
          /\ Len(toServer'[ClientSession]) = Len(toServer[ClientSession]) + 1
          /\ ExtractWord(encryptDecrypt(Last(toServer'[ClientSession])), 1).word = AUTH
  /\ (AuthPhase(cpc) /\ ~AuthPhase(cpc'))
       => /\ cpc = "auth_wait"
          /\ cpc' = "prompt"
          /\ ClientResponse = AUTH_SUCCESS
          /\ cResponse' = AUTH_SUCCESS
  /\ (cpc = "auth_wait" /\ cpc' # "auth_wait")
       => cpc' = IF ClientResponse = AUTH_SUCCESS THEN "prompt" ELSE "auth_prompt"
  /\ cpc = "auth_prompt" => cpc' \in {"auth_prompt", "auth_wait"}

\* C19: until it has received a response that is exactly AUTH_SUCCESS the
\* client sends nothing but AUTH commands, one for each pair of lines the
\* user types; a response that is not AUTH_SUCCESS returns it to the
\* credential prompt, as often as it occurs, and only AUTH_SUCCESS takes it
\* to the command prompt.
C19_AuthenticatesFirst == [][C19_Step]_vars

\* The client has been refused, has asked its user again and has sent its
\* third AUTH, the first with the right password: it is still in the loop,
\* the last response it has read is AUTH_FAIL, and AUTH_SUCCESS is on its
\* way to it.
C19_Witness ==
  /\ cpc = "auth_wait"
  /\ cInputs = 3
  /\ cResponse = AUTH_FAIL
  /\ isAuthenticated[ClientSession]
  /\ toServer[ClientSession] = <<>>
  /\ toClient[ClientSession] = <<encryptDecrypt(AUTH_SUCCESS)>>

\* ---- C20 -------------------------------------------------------------

\* Another session than s has the file of that name open, for a download
\* or for an upload.
OpenElsewhere(s, name) ==
  \E o \in Sessions \ {s} :
    \/ inFile[o].open /\ inFile[o].name = name
    \/ outFile[o].open /\ outFile[o].name = name

C20_Step(s) ==
  LET name == ExtractWord(Pending(s), ExtractWord(Pending(s), 1).next).word
  IN  /\ (TakesUpload(s) /\ OpenElsewhere(s, name))
           => /\ Len(toClient'[s]) > Len(toClient[s])
              /\ encryptDecrypt(toClient'[s][Len(toClient[s]) + 1]) = OK_UPLOAD
              /\ serverFiles'[name] = <<>>
              /\ UploadContinues(0, fileSize'[s])
                   => /\ pc'[s] = "upload_recv"
                      /\ outFile'[s] = [open |-> TRUE, name |-> name, pos |-> 0, eof |-> FALSE]
      /\ (TakesDownload(s) /\ OpenElsewhere(s, name))
           => /\ Replies(s, OK_DOWNLOAD \o SP \o to_string(Len(serverFiles[name])))
              /\ pc'[s] = "wait_start"
              /\ inFile'[s] = [open |-> TRUE, name |-> name, pos |-> 0, eof |-> FALSE]

\* C20: an UPLOAD or a DOWNLOAD that names a file another session has open,
\* for a download or for an upload, is taken and accepted like any other:
\* the UPLOAD truncates the file and is answered OK_UPLOAD, the DOWNLOAD is
\* answered OK_DOWNLOAD with the length the file has at that moment.
C20_NoExclusion == [][\A s \in Sessions : C20_Step(s)]_vars

\* The session of the client is receiving the upload of a.txt while the
\* other session is streaming a.txt.
C20_Witness ==
  /\ pc[1] = "upload_recv"
  /\ pc[2] = "stream"
  /\ outFile[1].name = A_TXT
  /\ inFile[2].name = A_TXT

\* ---- C21 -------------------------------------------------------------

\* The authenticated flag of s, the counters of its upload and its streams.
Accounting(s) ==
  <<isAuthenticated[s], fileSize[s], bytesReceived[s], inFile[s], outFile[s]>>

\* The step is the thread of s returning from a recv() on the connection of
\* s, with a message or with nothing when the peer has closed, or sending a
\* block of the download that a START on that connection began.
OwnStep(s) ==
  \/ /\ pc[s] \in {"recv_cmd", "wait_start", "upload_recv"}
     /\ toServer[s] # <<>>
     /\ toServer'[s] = RecvRest(toServer[s])
  \/ /\ pc[s] \in {"recv_cmd", "wait_start", "upload_recv"}
     /\ toServer[s] = <<>>
     /\ conn[s] = "closed"
     /\ toServer'[s] = <<>>
     /\ pc'[s] # pc[s]
  \/ /\ pc[s] = "stream"
     /\ Len(toClient'[s]) = Len(toClient[s]) + 1

C21_Step ==
  /\ \A s \in Sessions :
       Accounting(s)' # Accounting(s)
       => /\ OwnStep(s)
          /\ \A o \in Sessions \ {s} :
               /\ Accounting(o)' = Accounting(o)
               /\ <<pc[o], sock[o], toServer[o], toClient[o]>>'
                    = <<pc[o], sock[o], toServer[o], toClient[o]>>
  /\ validUsers' = validUsers

\* C21: the authenticated flag, the upload counters and the file streams of
\* a session change only in a step of that session's own thread on that
\* session's own connection, and such a step is of that session alone: it
\* changes neither those of another session nor another session's position,
\* socket or queues; the credential table is the same after every step and holds
\* the two entries it was built with, a rejected AUTH of an unknown user
\* included.
C21_Isolation == [][C21_Step]_vars /\ [](validUsers = VALID_USERS)

\* One session is authenticated and receives an upload; the other has sent
\* an AUTH that was rejected and is not authenticated; the table has no
\* entry for the unknown user.
C21_Witness ==
  \E s \in Sessions : \E o \in Sessions \ {s} :
    /\ isAuthenticated[s]
    /\ pc[s] = "upload_recv"
    /\ ~isAuthenticated[o]
    /\ pc[o] = "recv_cmd"
    /\ toServer[o] = <<>>
    /\ toClient[o] = <<encryptDecrypt(AUTH_FAIL)>>
    /\ <<110, 111, 117, 115, 101, 114>> \notin DOMAIN validUsers

\* ---- C22 -------------------------------------------------------------

C22_Step(s) ==
  /\ (isAuthenticated[s] /\ sock'[s] = "open") => isAuthenticated'[s]
  /\ (/\ pc[s] = "recv_cmd"
      /\ isAuthenticated[s]
      /\ Takes(s)
      /\ ExtractWord(Pending(s), 1).word = AUTH)
       => /\ Replies(s, ERR_UNKNOWN)
          /\ isAuthenticated'[s]
          /\ pc'[s] = "recv_cmd"
          /\ sock'[s] = "open"

\* C22: the authenticated flag of a session is never taken away while the
\* session is open: every step, whatever the command, the error or the
\* outcome of a transfer, leaves an authenticated session authenticated;
\* an AUTH sent by an authenticated session, with a right or a wrong
\* password, is not checked but answered "ERROR Unknown command.".
C22_Monotone == [][\A s \in Sessions : C22_Step(s)]_vars

\* An authenticated session has had an upload of a.txt reported incomplete
\* (two bytes announced, three received) and has been through five
\* messages, the last answered "ERROR Unknown command.": it is still
\* authenticated, open and awaiting a command.
C22_Witness ==
  \E s \in Sessions :
    /\ isAuthenticated[s]
    /\ pc[s] = "recv_cmd"
    /\ sock[s] = "open"
    /\ peerSends = 5
    /\ fileSize[s] = 2
    /\ bytesReceived[s] = 3
    /\ toServer[s] = <<>>
    /\ toClient[s] = <<encryptDecrypt(ERR_UNKNOWN)>>

============================================================================
